---- MODULE Spec2Model ----
(***************************************************************************)
(* Chain store of relation-node (store/postgres/src/chain_store.rs): the   *)
(* blocks table of one chain, the chain's row of ethereum_networks, and    *)
(* the operations that ingest blocks, advance the chain head, confirm a    *)
(* block hash and clean up cached blocks.                                  *)
(*                                                                         *)
(* Every SQL statement (and every committed transaction) is one atomic     *)
(* step.  attempt_chain_head_update runs its statements one after the      *)
(* other on a connection without an enclosing transaction, so each of its  *)
(* statements is a step of its own and other callers may run in between.   *)
(***************************************************************************)
EXTENDS Integers, Sequences, FiniteSets, TLC

\* ------------------------------------------------------------------ bounds

\* Block hashes are 1..MaxHash; their order is the byte order of the hashes.
MaxHash == 6
\* attempt_chain_head_update / cleanup_cached_blocks are called with
\* ancestor_count in 0..MaxAncestorCount.
MaxAncestorCount == 2
\* The receipt of a full block carries 0..MaxLogs logs.
MaxLogs == 2
\* CURRENT_DATE runs over the days 0..MaxDate.
MaxDate == 1
\* The call cache holds at most MaxCalls rows.
MaxCalls == 2
\* Head notifications sent in the life of a chain.
MaxSent == 1

\* ------------------------------------------------------------- Option<T>

None == <<>>
Some(x) == <<x>>
is_some(o) == o # None
unwrap(o) == o[1]
unwrap_or(o, d) == IF o = None THEN d ELSE o[1]

\* Result<T, Error>, and Pending for a call that has not returned yet.
Ok(v) == <<"Ok", v>>
Err(e) == <<"Err", e>>
Pending == <<"Pending">>
\* A call that panicked (expect, unwrap, unreachable!) instead of returning.
Panic == <<"Panic">>

Max(a, b) == IF a >= b THEN a ELSE b
Min(a, b) == IF a <= b THEN a ELSE b

\* ------------------------------------------------------ the chain's blocks

\* The zero hash: the parent_hash of the genesis block, never a block itself.
ZeroHash == 0
\* genesis_block_ptr: (net_identifier.genesis_block_hash, 0)
GenesisHash == 1
\* The one block with a sibling: 3 and 4 are both children of 2.
SiblingHash == 4

Hashes == 1..MaxHash

\* The blocks the network produces: the chain 1 (genesis, number 0), 2, 3,
\* 5, 6, ... of consecutive numbers, and block 4, a sibling of 3 with the
\* same number and parent (what a reorganisation at number 2 leaves behind).
NumberOf(h) == IF h < SiblingHash THEN h - 1 ELSE h - 2
ParentOf(h) ==
    IF h = GenesisHash THEN ZeroHash
    ELSE IF h = SiblingHash \/ h = SiblingHash + 1 THEN h - 2
    ELSE h - 1

\* An EthereumBlock without transactions, which is also the row of the
\* blocks table that stores it: hash, number and parent_hash are the columns,
\* transactions (of the embedded block) and transaction_receipts make up the
\* data column.
Block(h) ==
    [hash |-> h, number |-> NumberOf(h), parent_hash |-> ParentOf(h),
     transactions |-> <<>>, transaction_receipts |-> <<>>]
Universe == {Block(h) : h \in Hashes}
MaxNumber == NumberOf(MaxHash)

BlockPtr(h, n) == [hash |-> h, number |-> n]

\* The `to` of a transaction, by its hash: the transfers 10 and 11 go to
\* one address, 12 to another, 13 creates a contract and has none.
ToOf(t) ==
    IF t = 13 THEN None
    ELSE IF t \in {10, 11} THEN Some(<<1>>)
    ELSE Some(<<2>>)

\* The one transaction of a block with transactions; the two blocks of one
\* number include the same transaction.
TxOf(h) == NumberOf(h) + 1
Log(t, i) == [transaction_hash |-> t, log_index |-> i]

\* An EthereumBlock with one transaction and its receipt, which carries n
\* logs of log_index 0 .. n-1.
EthereumBlock(h, n) ==
    [Block(h) EXCEPT !.transactions = <<TxOf(h)>>,
                     !.transaction_receipts =
                         <<[i \in 1..n |-> Log(TxOf(h), i - 1)]>>]

\* The LightEthereumBlock of an EthereumBlock: its `block`, serialized by
\* upsert_light_block as an EthereumBlock with no receipts.
light(b) == [b EXCEPT !.transaction_receipts = <<>>]

\* Blocks with two of the transfers and no receipt.
TransferBlocks ==
    {[Block(h) EXCEPT !.transactions = txs] :
        h \in {GenesisHash + 1, GenesisHash + 2},
        txs \in {<<10, 11>>, <<10, 12>>, <<12, 13>>}}

\* The full blocks ingested with their receipts: those of the genesis block
\* and of its children and grandchildren.
PayloadHashes == {h \in Hashes : NumberOf(h) <= NumberOf(GenesisHash) + 2}
FullBlocks == {EthereumBlock(h, n) : h \in PayloadHashes, n \in 0..MaxLogs}
LightBlocks == {light(b) : b \in FullBlocks}
\* A light block, or a light block after its parent.
LightBatches ==
    {<<b>> : b \in LightBlocks}
      \cup {pb \in LightBlocks \X LightBlocks : pb[2].parent_hash = pb[1].hash}

\* The arguments of upsert_light_blocks: a block, or a block after its parent.
Batches ==
    {<<b>> : b \in Universe}
      \cup {<<Block(ParentOf(h)), Block(h)>> : h \in Hashes \ {GenesisHash}}

\* The arguments of confirm_block_hash: a number and the hash the network
\* reports at that number, which is a block of the universe with that number
\* or a hash the store has never seen (the zero hash stands for it).
Confirmations ==
    {<<NumberOf(h), h>> : h \in Hashes}
      \cup {<<n, ZeroHash>> : n \in 1..MaxNumber}

\* min(latest_ethereum_block_number) of the chain's deployments that have
\* not failed: NULL when there is none.
MinSubgraphHeads == {None} \cup {Some(n) : n \in 0..MaxNumber}

\* The callers of attempt_chain_head_update.
Workers == {1, 2}

VARIABLES
    storage,            \* Storage: "Shared" or "Private"
    blocks,             \* the committed rows of the chain's blocks table
    head_block_hash,    \* ethereum_networks.head_block_hash (Option)
    head_block_number,  \* ethereum_networks.head_block_number (Option)
    early_head_block_hash,    \* ethereum_networks.early_head_block_hash (Option)
    early_head_block_number,  \* ethereum_networks.early_head_block_number (Option)
    sent,               \* what chain_head_update_sender.send was called with
    txn,                \* the block written by an upsert_block transaction in flight
    transactions,       \* the committed rows of the transactions table
    receipts,           \* the committed rows of the receipts table
    pc,                 \* per caller: the statement attempt_chain_head_update is at
    ancestor_count,     \* per caller: the argument of the call
    head,               \* per caller: chain_head_candidate's local `head`
    candidate,          \* per caller: the local `candidate`
    returned,           \* the last call observed to return, and its value
    created,            \* whether the chain's row of ethereum_networks exists
    call_cache,         \* the committed rows of the call cache table
    call_meta,          \* the committed rows of the call meta table
    current_date,       \* the database's CURRENT_DATE, in days
    balance,            \* the committed rows of the balance table
    balance_head_block_hash,          \* ethereum_balance.head_block_hash
    balance_head_block_number,        \* ethereum_balance.head_block_number
    balance_early_head_block_hash,    \* ethereum_balance.early_head_block_hash
    balance_early_head_block_number,  \* ethereum_balance.early_head_block_number
    other_blocks,       \* the rows of public.ethereum_blocks of another chain
    items               \* SelectionSet.items of a GraphQL selection set

vars == <<storage, blocks, head_block_hash, head_block_number,
          early_head_block_hash, early_head_block_number, sent, txn,
          transactions, receipts,
          pc, ancestor_count, head, candidate, returned,
          created, call_cache, call_meta, current_date, balance,
          balance_head_block_hash, balance_head_block_number,
          balance_early_head_block_hash, balance_early_head_block_number,
          other_blocks, items>>

\* The locals of the callers of attempt_chain_head_update.
attempt_vars == <<pc, ancestor_count, head, candidate>>
\* The tables that only upsert_block writes.
table_vars == <<transactions, receipts>>
\* The chain's row of ethereum_networks and the notifications.
early_head_vars == <<early_head_block_hash, early_head_block_number>>
network_vars == <<head_block_hash, head_block_number, early_head_vars, sent>>
\* The call cache and the database's date.
cache_vars == <<call_cache, call_meta, current_date>>
\* The chain's row of ethereum_balance.
balance_head_vars == <<balance_head_block_hash, balance_head_block_number>>
balance_early_head_vars ==
    <<balance_early_head_block_hash, balance_early_head_block_number>>
\* What the block ingestion and the chain head update leave alone.
side_vars == <<created, cache_vars, balance, balance_head_vars,
               balance_early_head_vars, other_blocks, items>>

\* ---------------------------------------------------------------- queries

stored(blks, h) == \E b \in blks : b.hash = h
row(blks, h) == CHOOSE b \in blks : b.hash = h

\* chain_head_candidate breaking a tie by the largest hash.
chain_head_candidate_desc(blks, hd) ==
    LET above == {b \in blks : b.number > hd}
    IN  IF above = {} THEN None
        ELSE LET best == CHOOSE b \in above : \A c \in above :
                             \/ c.number < b.number
                             \/ c.number = b.number /\ b.hash >= c.hash
             IN  Some(BlockPtr(best.hash, best.number))

\* chain_head_candidate with `number >= head` for `number > head`.
chain_head_candidate_ge(blks, hd) ==
    LET above == {b \in blks : b.number >= hd}
    IN  IF above = {} THEN None
        ELSE LET best == CHOOSE b \in above : \A c \in above :
                             \/ c.number < b.number
                             \/ c.number = b.number /\ b.hash <= c.hash
             IN  Some(BlockPtr(best.hash, best.number))

\* Storage::chain_head_candidate, its second statement: the first block
\* with number > hd in the order (number desc, hash).
chain_head_candidate(blks, hd) ==
    LET above == {b \in blks : b.number > hd}
    IN  IF above = {} THEN None
        ELSE LET best == CHOOSE b \in above : \A c \in above :
                             \/ c.number < b.number
                             \/ c.number = b.number /\ b.hash <= c.hash
             IN  Some(BlockPtr(best.hash, best.number))

\* chain_step looking at the candidate's parent only.
chain_step_parent_only(blks, first_block, ph, genesis) ==
    IF ~stored(blks, ph) THEN Some(ph) ELSE None

\* The recursion step of the `chain` CTE of Storage::missing_parent: the row
\* for the parent hash `ph` of the previous row.  A parent that is not stored
\* gives the row (ph, NULL, true), which the final select returns; a stored
\* one ends the recursion when number <= first_block or it is genesis.
RECURSIVE chain_step(_, _, _, _)
chain_step(blks, first_block, ph, genesis) ==
    IF ~stored(blks, ph) THEN Some(ph)
    ELSE LET b == row(blks, ph)
         IN  IF b.number <= first_block \/ b.hash = genesis THEN None
             ELSE chain_step(blks, first_block, b.parent_hash, genesis)

\* missing_parent returning the block whose parent is missing instead of the
\* missing parent: `select parent_hash` read as `select hash` of the last row.
RECURSIVE chain_step_child(_, _, _, _)
chain_step_child(blks, first_block, b, genesis) ==
    IF ~stored(blks, b.parent_hash) THEN Some(b.hash)
    ELSE LET p == row(blks, b.parent_hash)
         IN  IF p.number <= first_block \/ p.hash = genesis THEN None
             ELSE chain_step_child(blks, first_block, p, genesis)

missing_parent_child(blks, first_block, hash, genesis) ==
    IF stored(blks, hash) /\ hash # genesis
    THEN chain_step_child(blks, first_block, row(blks, hash), genesis)
    ELSE None

\* missing_parent returning the parent of the candidate for a gap anywhere
\* below it: the final select reading the first row of the walk.
missing_parent_first(blks, first_block, hash, genesis) ==
    IF stored(blks, hash) /\ hash # genesis
          /\ is_some(chain_step(blks, first_block, row(blks, hash).parent_hash,
                                genesis))
    THEN Some(row(blks, hash).parent_hash)
    ELSE None

\* Storage::missing_parent: the base case selects the candidate block unless
\* it is the genesis block.
missing_parent(blks, first_block, hash, genesis) ==
    IF stored(blks, hash) /\ hash # genesis
    THEN chain_step(blks, first_block, row(blks, hash).parent_hash, genesis)
    ELSE None

\* The rows of the `chain` CTE of Storage::missing_parent, in the order the
\* recursion makes them.  A row is (hash, parent_hash, last); NullHash is the
\* NULL of a hash column.  The step joins the previous row's parent_hash to
\* the blocks (left outer: no match gives NULL columns, and NULL matches
\* nothing) and stops after a row whose `last` is true.
NullHash == -1

chain_row(h, ph, l) == [hash |-> h, parent_hash |-> ph, last |-> l]

RECURSIVE chain_rows_from(_, _, _, _)
chain_rows_from(blks, first_block, prev, genesis) ==
    IF prev.last THEN <<>>
    ELSE LET h == prev.parent_hash
             r == IF h # NullHash /\ stored(blks, h)
                  THEN LET b == row(blks, h)
                       IN  chain_row(h, b.parent_hash,
                                     \/ b.parent_hash = NullHash
                                     \/ b.number <= first_block
                                     \/ b.hash = genesis)
                  ELSE chain_row(h, NullHash, TRUE)
         IN  <<r>> \o chain_rows_from(blks, first_block, r, genesis)

chain_rows(blks, first_block, hash, genesis) ==
    IF stored(blks, hash) /\ hash # genesis
    THEN LET base == chain_row(hash, row(blks, hash).parent_hash, FALSE)
         IN  <<base>> \o chain_rows_from(blks, first_block, base, genesis)
    ELSE <<>>

\* The final select of the query: the hash of the rows whose parent_hash
\* is NULL.
is_missing(r) == r.parent_hash = NullHash

missing_rows(blks, first_block, hash, genesis) ==
    LET missing == SelectSeq(chain_rows(blks, first_block, hash, genesis),
                             is_missing)
    IN  [i \in 1..Len(missing) |-> missing[i].hash]

\* The match on missing.len() of Storage::missing_parent.
missing_parent_match(missing) ==
    IF Len(missing) = 0 THEN Ok(None)
    ELSE IF Len(missing) = 1 THEN Ok(Some(missing[1]))
    ELSE Panic

\* The recursion step of the `ancestors` CTE selecting the joined block's
\* own hash, so that the walk never leaves its first block.
ancestor_self(b) == b.hash

\* The hash the recursion step of the `ancestors` CTE of
\* Storage::ancestor_block selects from the joined block.
ancestor_parent(b) == b.parent_hash

\* The rows (block_hash, block_offset) the recursion adds after the row
\* (h, block_offset): one per stored block while block_offset < offset.
RECURSIVE ancestors_from(_, _, _, _)
ancestors_from(blks, h, block_offset, offset) ==
    IF block_offset < offset /\ stored(blks, h)
    THEN LET next == ancestor_parent(row(blks, h))
         IN  <<<<next, block_offset + 1>>>>
                 \o ancestors_from(blks, next, block_offset + 1, offset)
    ELSE <<>>

ancestors(blks, hash, offset) ==
    <<<<hash, 0>>>> \o ancestors_from(blks, hash, 0, offset)

\* Storage::ancestor_block: the hash of the row with block_offset = offset,
\* if there is one (get_result .. optional), and then the data of the block
\* with that hash, `first` failing with NotFound when there is no such row.
storage_ancestor_block(blks, hash, offset) ==
    LET at_offset(r) == r[2] = offset
        found == SelectSeq(ancestors(blks, hash, offset), at_offset)
    IN  IF found = <<>> THEN Ok(None)
        ELSE IF stored(blks, found[1][1])
             THEN Ok(Some(row(blks, found[1][1])))
             ELSE Err("NotFound")

\* ChainStore::ancestor_block: the ensure! on the offset comes before the
\* connection is taken; `read` tells whether the store was queried.
ancestor_block(blks, block_ptr, offset) ==
    IF ~(block_ptr.number >= offset)
    THEN [read |-> FALSE, result |-> Err("precondition")]
    ELSE [read |-> TRUE,
          result |-> storage_ancestor_block(blks, block_ptr.hash, offset)]

\* The match of chain_head_ptr and chain_early_head_ptr on the two columns
\* of the row: (Some, Some) is the pointer, (None, None) is None, anything
\* else runs into unreachable!().
match_pointer(hash_opt, number_opt) ==
    IF is_some(hash_opt) /\ is_some(number_opt)
    THEN Ok(Some(BlockPtr(unwrap(hash_opt), unwrap(number_opt))))
    ELSE IF hash_opt = None /\ number_opt = None THEN Ok(None)
    ELSE Panic

\* ChainStore::chain_head_pointers for the one chain: the filter_map keeps
\* the row when both columns are set and drops it otherwise.
chain_head_pointers(hash_opt, number_opt) ==
    IF is_some(hash_opt) /\ is_some(number_opt)
    THEN Ok({BlockPtr(unwrap(hash_opt), unwrap(number_opt))})
    ELSE Ok({})

\* ChainStore::chain_head_ptr: (None, None) => None, both set => the pointer.
chain_head_ptr ==
    IF is_some(head_block_hash) /\ is_some(head_block_number)
    THEN Some(BlockPtr(unwrap(head_block_hash), unwrap(head_block_number)))
    ELSE None

\* Reading the rows of a transaction in flight as well (a dirty read).
visible_blocks_dirty(blks, pending) ==
    blks \cup {b \in Universe : pending = Some(b)}

\* What a statement sees of the blocks table: the committed rows, not the
\* rows written by a transaction in flight on another connection.
visible_blocks(blks, pending) == blks

\* -------------------------------------------------------------- ingestion

\* upsert_light_block with `do update` for `do nothing`.
upsert_light_block_overwrite(blks, b) ==
    {r \in blks : r.hash # b.hash} \cup {b}

\* Storage::upsert_light_block: insert ... on conflict(hash) do nothing.
upsert_light_block(blks, b) ==
    IF stored(blks, b.hash) THEN blks ELSE blks \cup {b}

\* ChainStore::upsert_light_blocks: `for block in blocks`, each insert on the
\* pooled connection.
RECURSIVE upsert_light_blocks(_, _)
upsert_light_blocks(blks, bs) ==
    IF bs = <<>> THEN blks
    ELSE upsert_light_blocks(upsert_light_block(blks, Head(bs)), Tail(bs))

\* The rows of another chain that lie in the chain's blocks table: those of
\* public.ethereum_blocks, which the chains in shared storage have in common
\* and whose primary key is the hash alone.
other_rows(st, other) == IF st = "Shared" THEN other ELSE {}

\* The inserts run against the whole table; the chain's rows are those it
\* holds afterwards that are not another chain's.
UpsertLightBlocks(bs) ==
    LET others == other_rows(storage, other_blocks)
    IN  /\ blocks' = upsert_light_blocks(blocks \cup others, bs) \ others
        /\ UNCHANGED <<storage, side_vars, table_vars, network_vars,
                       attempt_vars, txn>>

\* upsert_light_blocks of a chain in shared storage, called on the other
\* chain's store.
OtherUpsertLightBlocks(bs) ==
    LET public == other_rows(storage, blocks) \cup other_blocks
    IN  /\ other_blocks' = upsert_light_blocks(public, bs)
                               \ other_rows(storage, blocks)
        /\ UNCHANGED <<storage, table_vars, blocks, network_vars,
                       attempt_vars, txn, created, cache_vars, balance,
                       balance_head_vars, balance_early_head_vars, items>>

\* Storage::upsert_block: Private inserts the block row, on conflict(hash)
\* overwriting number, parent_hash and data; Shared writes only transactions.
upsert_block(st, blks, b) ==
    IF st = "Private"
    THEN {r \in blks : r.hash # b.hash} \cup {b}
    ELSE blks

\* insert into .. values rows on conflict(key) do nothing, the rows taken in
\* order: a row whose key is already there, from before or from an earlier
\* row of the same statement, is skipped.
RECURSIVE insert_do_nothing(_, _)
insert_do_nothing(table, rows) ==
    IF rows = <<>> THEN table
    ELSE LET r == Head(rows)
             t == IF \E x \in table : x.id = r.id THEN table
                  ELSE table \cup {r}
         IN  insert_do_nothing(t, Tail(rows))

\* The values of the receipts insert for one receipt: one row for each log,
\* its first column, `id`, bound to the log's transaction_hash.
receipt_values(b, receipt) ==
    [i \in 1..Len(receipt) |->
        [id |-> receipt[i].transaction_hash,
         transaction_hash |-> receipt[i].transaction_hash,
         log_index |-> receipt[i].log_index,
         block_hash |-> b.hash]]

\* Storage::upsert_block, the receipts: `for receipt in
\* block.transaction_receipts`, one insert for each receipt that has logs
\* (Private only).
RECURSIVE upsert_block_receipts(_, _, _, _)
upsert_block_receipts(st, table, b, rs) ==
    IF st # "Private" \/ rs = <<>> THEN table
    ELSE upsert_block_receipts(
             st, insert_do_nothing(table, receipt_values(b, Head(rs))),
             b, Tail(rs))

\* Storage::upsert_block, the transactions: one insert of a row for each
\* transaction of the block, on conflict(hash) do nothing (both variants).
upsert_block_transactions(st, table, b) ==
    insert_do_nothing(
        table,
        [i \in 1..Len(b.transactions) |->
            [id |-> b.transactions[i], block_hash |-> b.hash,
             block_number |-> b.number,
             to |-> IF st = "Private" THEN ToOf(b.transactions[i])
                    ELSE None]])

\* ChainStore::upsert_block: conn.transaction(|| storage.upsert_block(..)),
\* the whole committed transaction as one step.
UpsertBlock(b) ==
    /\ txn = None
    /\ blocks' = upsert_block(storage, blocks, b)
    /\ receipts' = upsert_block_receipts(storage, receipts, b,
                                         b.transaction_receipts)
    /\ transactions' = upsert_block_transactions(storage, transactions, b)
    /\ UNCHANGED <<storage, side_vars, network_vars, attempt_vars, txn>>

\* The same transaction in two steps, for what other connections see while
\* it is in flight: it has run its statements and has not committed yet.
UpsertBlockBegin(b) ==
    /\ txn = None
    /\ txn' = Some(b)
    /\ UNCHANGED <<storage, side_vars, table_vars, blocks, network_vars, attempt_vars>>

\* The transaction commits: its rows become visible.
UpsertBlockCommit ==
    /\ is_some(txn)
    /\ blocks' = upsert_block(storage, blocks, unwrap(txn))
    /\ receipts' = upsert_block_receipts(storage, receipts, unwrap(txn),
                                         unwrap(txn).transaction_receipts)
    /\ transactions' = upsert_block_transactions(storage, transactions,
                                                 unwrap(txn))
    /\ txn' = None
    /\ UNCHANGED <<storage, side_vars, network_vars, attempt_vars>>

\* A statement failed (`?`): the transaction is rolled back.
UpsertBlockRollback ==
    /\ is_some(txn)
    /\ txn' = None
    /\ UNCHANGED <<storage, side_vars, table_vars, blocks, network_vars, attempt_vars>>

\* The statements that upsert_block runs for block b.
upsert_block_statements(st, b) ==
    IF st = "Private"
    THEN {"block"}
           \cup {"receipts" : i \in {j \in 1..Len(b.transaction_receipts) :
                                        Len(b.transaction_receipts[j]) > 0}}
           \cup {"transactions" : i \in 1..Len(b.transactions)}
    ELSE {"transactions"}

\* What the call comes to when statement `at` fails: the block insert of
\* Private and the transactions insert of Shared end in `?`, the receipts
\* and transactions inserts of Private in `.expect(..)`.
upsert_block_failure(st, at) ==
    IF st = "Private" /\ at \in {"receipts", "transactions"}
    THEN Panic
    ELSE Err("StoreError")

\* ChainStore::upsert_block when statement `at` fails: the transaction does
\* not commit and none of its rows becomes visible.
UpsertBlockFails(b, at) ==
    /\ txn = None
    /\ at \in upsert_block_statements(storage, b)
    /\ UNCHANGED <<storage, side_vars, table_vars, blocks, network_vars, attempt_vars, txn>>

\* ChainStore::upsert_light_blocks when the i-th insert fails: `?` returns
\* from the loop, after the inserts before it have been executed on the
\* connection, each on its own.
UpsertLightBlocksFails(bs, i) ==
    /\ i \in 1..Len(bs)
    /\ LET others == other_rows(storage, other_blocks)
       IN  blocks' = upsert_light_blocks(blocks \cup others,
                                         SubSeq(bs, 1, i - 1)) \ others
    /\ UNCHANGED <<storage, side_vars, table_vars, network_vars,
                   attempt_vars, txn>>

\* Storage::blocks: select data -> 'block' of the rows whose hash is one of
\* `hashes`, deserialized as light blocks.
blocks_of(blks, hashes) == {light(r) : r \in {x \in blks : x.hash \in hashes}}

\* Storage::block_hashes_by_block_number
block_hashes_by_block_number(blks, number) ==
    {r.hash : r \in {x \in blks : x.number = number}}

\* early_attempt_chain_head_update writing the chain head as well.
EarlyAttemptChainHeadUpdate_both(parent_num, parent_hash) ==
    /\ early_head_block_hash' = Some(parent_hash)
    /\ early_head_block_number' = Some(parent_num)
    /\ head_block_hash' = Some(parent_hash)
    /\ head_block_number' = Some(parent_num)
    /\ UNCHANGED <<storage, side_vars, table_vars, blocks, sent,
                   attempt_vars, txn>>

\* ChainStore::early_attempt_chain_head_update: one transaction that sets
\* the early head to its arguments.
EarlyAttemptChainHeadUpdate(parent_num, parent_hash) ==
    /\ early_head_block_hash' = Some(parent_hash)
    /\ early_head_block_number' = Some(parent_num)
    /\ UNCHANGED <<storage, side_vars, table_vars, blocks, head_block_hash,
                   head_block_number, sent, attempt_vars, txn>>

\* chain_update_balance_head setting the hash and leaving the number.
ChainUpdateBalanceHead_hash(block_ptr) ==
    /\ balance_head_block_hash' = Some(block_ptr.hash)
    /\ UNCHANGED <<storage, table_vars, blocks, network_vars, attempt_vars,
                   txn, created, cache_vars, balance, balance_head_block_number,
                   balance_early_head_vars, other_blocks, items>>

\* ChainStore::chain_update_balance_head: one update of the chain's row of
\* ethereum_balance.
ChainUpdateBalanceHead(block_ptr) ==
    /\ balance_head_block_hash' = Some(block_ptr.hash)
    /\ balance_head_block_number' = Some(block_ptr.number)
    /\ UNCHANGED <<storage, table_vars, blocks, network_vars, attempt_vars,
                   txn, created, cache_vars, balance,
                   balance_early_head_vars, other_blocks, items>>

\* ChainStore::chain_update_balance_early_head.
ChainUpdateBalanceEarlyHead(early_block) ==
    /\ balance_early_head_block_hash' = Some(early_block.hash)
    /\ balance_early_head_block_number' = Some(early_block.number)
    /\ UNCHANGED <<storage, table_vars, blocks, network_vars, attempt_vars,
                   txn, created, cache_vars, balance,
                   balance_head_vars, other_blocks, items>>

\* Storage::block_number: the number of the row with this hash, in both
\* variants a select on the hash alone.
Storage_block_number(table, hash) ==
    IF stored(table, hash) THEN Ok(Some(row(table, hash).number))
    ELSE Ok(None)

\* ChainStore::block_number.
BlockNumber(hash) ==
    /\ returned' = <<"block_number", hash,
                     Storage_block_number(blocks \cup other_rows(storage, other_blocks),
                                  hash)>>
    /\ UNCHANGED <<storage, side_vars, table_vars, blocks, network_vars,
                   attempt_vars, txn>>

\* ------------------------------------------------- reorg and retention

\* confirm_block_hash without its `hash != $2` filter.
confirm_block_hash_rows_all(blks, number, hash) ==
    {b \in blks : b.number = number}

\* Storage::confirm_block_hash: the rows `where number = $1 and hash != $2`.
confirm_block_hash_rows(blks, number, hash) ==
    {b \in blks : b.number = number /\ b.hash # hash}

\* Storage::confirm_block_hash: delete them; execute() returns how many.
confirm_block_hash(blks, number, hash) ==
    Cardinality(confirm_block_hash_rows(blks, number, hash))

ConfirmBlockHash(number, hash) ==
    /\ blocks' = blocks \ confirm_block_hash_rows(blocks, number, hash)
    /\ UNCHANGED <<storage, side_vars, table_vars, network_vars, attempt_vars, txn>>

\* Storage::delete_blocks_before: the rows `where number < $1 and number > 0`.
\* delete_blocks_before without its `number > 0` filter.
delete_blocks_before_rows_all(blks, block) ==
    {b \in blks : b.number < block}

delete_blocks_before_rows(blks, block) ==
    {b \in blks : b.number < block /\ b.number > 0}

\* SQL least(a, b) of two nullable integers: NULLs are ignored, the result is
\* NULL only when both are.
least(a, b) ==
    IF a = None THEN b
    ELSE IF b = None THEN a
    ELSE Some(Min(unwrap(a), unwrap(b)))

\* The query of ChainStore::cleanup_cached_blocks:
\* coalesce(least(a.block, head_block_number - $1), -1), where a.block is the
\* minimum head of the chain's deployments that have not failed (NULL if none).
cleanup_min_block(min_subgraph, hd, k) ==
    unwrap_or(least(min_subgraph,
                    IF hd = None THEN None ELSE Some(unwrap(hd) - k)), -1)

\* ChainStore::cleanup_cached_blocks: Some((block, rows)) or None.
cleanup_cached_blocks(blks, min_subgraph, hd, k) ==
    LET block == cleanup_min_block(min_subgraph, hd, k)
    IN  IF block > 0
        THEN Some(<<block, Cardinality(delete_blocks_before_rows(blks, block))>>)
        ELSE None

CleanupCachedBlocks(k, min_subgraph) ==
    LET block == cleanup_min_block(min_subgraph, head_block_number, k)
    IN  /\ blocks' = IF block > 0
                     THEN blocks \ delete_blocks_before_rows(blocks, block)
                     ELSE blocks
        /\ UNCHANGED <<storage, side_vars, table_vars, network_vars, attempt_vars, txn>>

\* ---------------------------------------------- attempt_chain_head_update

\* first_block without ancestor_count: the walk goes down to the genesis block.
first_block_of_genesis(ptr, k) == 0

\* 0.max(ptr.number.saturating_sub(ancestor_count))
first_block_of(ptr, k) == Max(0, ptr.number - k)

\* chain_head_candidate, first statement: read head_block_number.
AttemptReadHead(w, k) ==
    /\ pc[w] = "idle"
    /\ pc' = [pc EXCEPT ![w] = "select"]
    /\ ancestor_count' = [ancestor_count EXCEPT ![w] = k]
    /\ head' = [head EXCEPT ![w] = unwrap_or(head_block_number, -1)]
    /\ UNCHANGED <<storage, side_vars, table_vars, blocks, network_vars, candidate, txn>>

\* chain_head_candidate, second statement; `None => return Ok((None, None))`.
AttemptSelectCandidate(w) ==
    /\ pc[w] = "select"
    /\ LET c == chain_head_candidate(visible_blocks(blocks, txn), head[w])
       IN  IF c = None
           THEN /\ pc' = [pc EXCEPT ![w] = "idle"]
                /\ ancestor_count' = [ancestor_count EXCEPT ![w] = 0]
                /\ UNCHANGED candidate
           ELSE /\ pc' = [pc EXCEPT ![w] = "missing_parent"]
                /\ candidate' = [candidate EXCEPT ![w] = c]
                /\ UNCHANGED ancestor_count
    /\ head' = [head EXCEPT ![w] = -1]
    /\ UNCHANGED <<storage, side_vars, table_vars, blocks, network_vars, txn>>

\* What the missing_parent query of caller w finds.
missing_of(w) ==
    missing_parent(visible_blocks(blocks, txn),
                   first_block_of(unwrap(candidate[w]), ancestor_count[w]),
                   unwrap(candidate[w]).hash, GenesisHash)

\* The missing_parent step going on to the update whatever the query found.
AttemptMissingParent_advance(w) ==
    /\ pc[w] = "missing_parent"
    /\ pc' = [pc EXCEPT ![w] = "update"]
    /\ ancestor_count' = [ancestor_count EXCEPT ![w] = 0]
    /\ UNCHANGED <<storage, side_vars, table_vars, blocks, network_vars, head, candidate, txn>>

\* The missing_parent query; `Some(missing) => return Ok((Some(missing), None))`.
AttemptMissingParent(w) ==
    /\ pc[w] = "missing_parent"
    /\ IF is_some(missing_of(w))
       THEN /\ pc' = [pc EXCEPT ![w] = "idle"]
            /\ candidate' = [candidate EXCEPT ![w] = None]
       ELSE /\ pc' = [pc EXCEPT ![w] = "update"]
            /\ UNCHANGED candidate
    /\ ancestor_count' = [ancestor_count EXCEPT ![w] = 0]
    /\ UNCHANGED <<storage, side_vars, table_vars, blocks, network_vars, head, txn>>

\* The update calling send before its transaction has committed.
AttemptUpdateHead_send_first(w) ==
    /\ pc[w] = "update"
    /\ sent' = Append(sent, unwrap(candidate[w]))
    /\ UNCHANGED <<head_block_hash, head_block_number>>
    /\ pc' = [pc EXCEPT ![w] = "send"]
    /\ UNCHANGED <<storage, side_vars, table_vars, early_head_vars, blocks,
                   ancestor_count, head, candidate, txn>>

\* The transaction that updates the chain's row of ethereum_networks.
AttemptUpdateHead(w) ==
    /\ pc[w] = "update"
    /\ head_block_hash' = Some(unwrap(candidate[w]).hash)
    /\ head_block_number' = Some(unwrap(candidate[w]).number)
    /\ pc' = [pc EXCEPT ![w] = "send"]
    /\ UNCHANGED <<storage, side_vars, table_vars, early_head_vars, blocks, sent,
                   ancestor_count, head, candidate, txn>>

\* The update fails (`?`): the transaction is rolled back and the call
\* returns the error without calling send.
AttemptUpdateFails(w) ==
    /\ pc[w] = "update"
    /\ pc' = [pc EXCEPT ![w] = "idle"]
    /\ candidate' = [candidate EXCEPT ![w] = None]
    /\ UNCHANGED <<storage, side_vars, table_vars, blocks, network_vars, ancestor_count, head, txn>>

\* self.chain_head_update_sender.send(&hash, number)?; Ok(missing).
\* `sent` records the calls of send.  Whether send itself returns Ok or an
\* error changes only what attempt_chain_head_update returns.
AttemptSend(w) ==
    /\ pc[w] = "send"
    /\ sent' = Append(sent, unwrap(candidate[w]))
    /\ pc' = [pc EXCEPT ![w] = "idle"]
    /\ candidate' = [candidate EXCEPT ![w] = None]
    /\ UNCHANGED <<storage, side_vars, table_vars, early_head_vars, blocks,
                   head_block_hash, head_block_number,
                   ancestor_count, head, txn>>

\* A statement of attempt_chain_head_update by caller w.
AttemptStep(w) ==
    \/ \E k \in 0..MaxAncestorCount : AttemptReadHead(w, k)
    \/ AttemptSelectCandidate(w)
    \/ AttemptMissingParent(w)
    \/ AttemptUpdateHead(w)
    \/ AttemptUpdateFails(w)
    \/ AttemptSend(w)

\* What the caller w gets back from the call.
Returns(w, v) == returned' = <<"attempt_chain_head_update", w, v>>

\* The same statements, with what the call returns to its caller.
AttemptObserved(w) ==
    \/ /\ \E k \in 0..MaxAncestorCount : AttemptReadHead(w, k)
       /\ Returns(w, Pending)
    \/ /\ AttemptSelectCandidate(w)
       /\ IF chain_head_candidate(visible_blocks(blocks, txn), head[w]) = None
          THEN Returns(w, Ok(None))
          ELSE UNCHANGED returned
    \/ /\ AttemptMissingParent(w)
       /\ IF is_some(missing_of(w))
          THEN Returns(w, Ok(missing_of(w)))
          ELSE UNCHANGED returned
    \/ /\ AttemptUpdateHead(w)
       /\ UNCHANGED returned
    \/ /\ AttemptUpdateFails(w)
       /\ Returns(w, Err("update"))
    \/ /\ AttemptSend(w)
       /\ \E send_ok \in BOOLEAN :
              Returns(w, IF send_ok THEN Ok(None) ELSE Err("send"))

\* ------------------------------------------------------------- call cache

\* Byte strings: an address and a block hash have a fixed length (one
\* element here), an encoded call any length.
Contracts == {<<1>>, <<2>>}
EncodedCalls == {<<>>, <<1>>}
ReturnValues == {<<10>>, <<11>>}
CallBlocks == {BlockPtr(h, NumberOf(h)) : h \in {GenesisHash, GenesisHash + 1}}
hash_slice(block) == <<block.hash>>

\* contract_call_id: the hasher is fed encoded_call, contract_address and
\* the block hash in this order, so the id is the hash of their
\* concatenation; a hash without collisions is that concatenation itself.
contract_call_id(contract_address, encoded_call, block) ==
    encoded_call \o contract_address \o hash_slice(block)

\* Storage::get_call_and_access: the cache row with this id joined to the
\* meta row of its contract, as (return_value, CURRENT_DATE > accessed_at).
get_call_and_access(cache, meta, date, id) ==
    LET found == {<<c, m>> \in cache \X meta :
                     /\ c.id = id
                     /\ m.contract_address = c.contract_address}
    IN  IF found = {} THEN None
        ELSE LET cm == CHOOSE x \in found : TRUE
             IN  Some(<<cm[1].return_value, date > cm[2].accessed_at>>)

\* update_accessed_at leaving the meta table as it is.
update_accessed_at_skip(meta, date, contract_address) == meta

\* Storage::update_accessed_at.
update_accessed_at(meta, date, contract_address) ==
    {IF m.contract_address = contract_address
     THEN [m EXCEPT !.accessed_at = date] ELSE m : m \in meta}

\* ChainStore::get_call: the lookup and the update of accessed_at in one
\* transaction.  The value is the call's result and the meta table after it.
get_call(cache, meta, date, contract_address, encoded_call, block) ==
    LET id == contract_call_id(contract_address, encoded_call, block)
        hit == get_call_and_access(cache, meta, date, id)
    IN  IF is_some(hit)
        THEN [result |-> Ok(Some(unwrap(hit)[1])),
              meta |-> IF unwrap(hit)[2]
                       THEN update_accessed_at(meta, date, contract_address)
                       ELSE meta]
        ELSE [result |-> Ok(None), meta |-> meta]

\* The cache insert of set_call replacing the row of an id that is there.
set_call_cache_overwrite(cache, id, contract_address, block_number, return_value) ==
    {c \in cache : c.id # id}
        \cup {[id |-> id, contract_address |-> contract_address,
                block_number |-> block_number, return_value |-> return_value]}

\* Storage::set_call, the first statement: insert .. on conflict do nothing.
set_call_cache(cache, id, contract_address, block_number, return_value) ==
    IF \E c \in cache : c.id = id THEN cache
    ELSE cache \cup {[id |-> id, contract_address |-> contract_address,
                      block_number |-> block_number,
                      return_value |-> return_value]}

\* Storage::set_call, the second statement: the upsert of the contract's
\* meta row, as the table after it and the number of rows it wrote.  On a
\* conflict Shared sets accessed_at whatever it was; Private updates `where
\* excluded.accessed_at < CURRENT_DATE`, and excluded is the row proposed
\* for insertion, whose accessed_at is CURRENT_DATE.
set_call_meta(st, meta, date, contract_address) ==
    IF ~\E m \in meta : m.contract_address = contract_address
    THEN [meta |-> meta \cup {[contract_address |-> contract_address,
                                accessed_at |-> date]},
          rows |-> 1]
    ELSE IF st = "Shared"
         THEN [meta |-> update_accessed_at(meta, date, contract_address),
               rows |-> 1]
         ELSE LET excluded == [contract_address |-> contract_address,
                               accessed_at |-> date]
              IN  IF excluded.accessed_at < date
                  THEN [meta |-> update_accessed_at(meta, date,
                                                    contract_address),
                        rows |-> 1]
                  ELSE [meta |-> meta, rows |-> 0]

\* ChainStore::get_call.
GetCall(contract_address, encoded_call, block) ==
    LET r == get_call(call_cache, call_meta, current_date,
                      contract_address, encoded_call, block)
    IN  /\ created
        /\ call_meta' = r.meta
        /\ returned' = <<"get_call", contract_address, encoded_call, block,
                         r.result>>
        /\ UNCHANGED <<storage, table_vars, blocks, network_vars,
                       attempt_vars, txn, created, call_cache, current_date,
                       balance, balance_head_vars, balance_early_head_vars,
                       other_blocks, items>>

\* ChainStore::set_call: both statements in one transaction.  The observation
\* carries the number of rows the meta statement wrote.
SetCall(contract_address, encoded_call, block, return_value) ==
    LET id == contract_call_id(contract_address, encoded_call, block)
        m == set_call_meta(storage, call_meta, current_date, contract_address)
    IN  /\ created
        /\ \/ Cardinality(call_cache) < MaxCalls
           \/ \E c \in call_cache : c.id = id
        /\ call_cache' = set_call_cache(call_cache, id, contract_address,
                                        block.number, return_value)
        /\ call_meta' = m.meta
        /\ returned' = <<"set_call", contract_address, encoded_call, block,
                         return_value, m.rows, Ok(<<>>)>>
        /\ UNCHANGED <<storage, table_vars, blocks, network_vars,
                       attempt_vars, txn, created, current_date,
                       balance, balance_head_vars, balance_early_head_vars,
                       other_blocks, items>>

\* A day passes on the database's clock.
AdvanceDate ==
    /\ current_date < MaxDate
    /\ current_date' = current_date + 1
    /\ returned' = <<"none">>
    /\ UNCHANGED <<storage, table_vars, blocks, network_vars,
                   attempt_vars, txn, created, call_cache, call_meta,
                   balance, balance_head_vars, balance_early_head_vars,
                   other_blocks, items>>

\* ---------------------------------------------------------- balance ledger

\* A byte has ByteBits bits and a U256 has AmountBytes bytes (8 and 32 in the
\* code, scaled down).
ByteBits == 2
AmountBytes == 2
ByteBase == 2 ^ ByteBits
AmountLimit == ByteBase ^ AmountBytes

\* The amounts: the ends of the range and both sides of its middle, where
\* the top bit of the top byte comes on.
Amounts == {0, 1, AmountLimit \div 2 - 1, AmountLimit \div 2, AmountLimit - 1}
Addresses == {<<1>>, <<2>>}
BalanceBlocks ==
    {BlockPtr(h, NumberOf(h)) : h \in {GenesisHash, GenesisHash + 1}}

\* n as len little-endian bytes (U256::to_little_endian).
RECURSIVE to_little_endian(_, _)
to_little_endian(n, len) ==
    IF len = 0 THEN <<>>
    ELSE <<n % ByteBase>> \o to_little_endian(n \div ByteBase, len - 1)

RECURSIVE from_unsigned_bytes_le(_)
from_unsigned_bytes_le(bytes) ==
    IF bytes = <<>> THEN 0
    ELSE Head(bytes) + ByteBase * from_unsigned_bytes_le(Tail(bytes))

\* BigInt::from_unsigned_u256: the 32 little-endian bytes read as unsigned.
from_unsigned_u256(amount) ==
    from_unsigned_bytes_le(to_little_endian(amount, AmountBytes))

\* The magnitude of n >= 0 as little-endian bytes without leading zeros,
\* one zero byte for 0.
RECURSIVE to_bytes_le(_)
to_bytes_le(n) ==
    IF n < ByteBase THEN <<n>>
    ELSE <<n % ByteBase>> \o to_bytes_le(n \div ByteBase)

\* BigInt::to_signed_bytes_le of n >= 0: the two's-complement bytes, which
\* are those of the magnitude and a zero byte after them when the top bit
\* of the last one is set.
to_signed_bytes_le(n) ==
    LET bytes == to_bytes_le(n)
    IN  IF bytes[Len(bytes)] >= ByteBase \div 2 THEN bytes \o <<0>>
        ELSE bytes

\* num_bigint::BigInt::from_signed_bytes_le: the bytes read as two's
\* complement, negative when the top bit of the last byte is set.
from_signed_bytes_le(bytes) ==
    IF bytes[Len(bytes)] >= ByteBase \div 2
    THEN from_unsigned_bytes_le(bytes) - ByteBase ^ Len(bytes)
    ELSE from_unsigned_bytes_le(bytes)

\* The numeric made from the bytes of the magnitude, without the zero byte
\* that keeps the sign.
balance_numeric_magnitude(amount) ==
    from_signed_bytes_le(to_bytes_le(from_unsigned_u256(amount)))

\* The numeric bound to the insert of upsert_balance.
balance_numeric(amount) ==
    from_signed_bytes_le(to_signed_bytes_le(from_unsigned_u256(amount)))

\* upsert_balance with `do update set amount = $2, block_hash = $4`.
upsert_balance_excluded(st, table, address, amount, block_ptr) ==
    IF st = "Shared" THEN table
    ELSE {r \in table : ~(/\ r.address = address
                          /\ r.block_number = block_ptr.number)}
            \cup {[address |-> address,
                   amount |-> balance_numeric(amount),
                   block_number |-> block_ptr.number,
                   block_hash |-> block_ptr.hash]}

\* Storage::upsert_balance: Shared does nothing; Private inserts the row,
\* on conflict(address, block_number) setting its amount.  Both return Ok.
upsert_balance(st, table, address, amount, block_ptr) ==
    IF st = "Shared" THEN table
    ELSE IF \E r \in table : /\ r.address = address
                              /\ r.block_number = block_ptr.number
         THEN {IF r.address = address /\ r.block_number = block_ptr.number
               THEN [r EXCEPT !.amount = balance_numeric(amount)]
               ELSE r : r \in table}
         ELSE table \cup {[address |-> address,
                           amount |-> balance_numeric(amount),
                           block_number |-> block_ptr.number,
                           block_hash |-> block_ptr.hash]}

\* ChainStore::upsert_balance.
UpsertBalance(address, amount, block_ptr) ==
    /\ created
    /\ balance' = upsert_balance(storage, balance, address, amount, block_ptr)
    /\ returned' = <<"upsert_balance", address, amount, block_ptr, Ok(<<>>)>>
    /\ UNCHANGED <<storage, table_vars, blocks, network_vars, attempt_vars,
                   txn, created, cache_vars, balance_head_vars,
                   balance_early_head_vars, other_blocks, items>>

\* The rows of a table as a list, in the order of their ids (a select
\* without `order by` returns them in an order of its own).
RECURSIVE rows_in_order(_)
rows_in_order(table) ==
    IF table = {} THEN <<>>
    ELSE LET r == CHOOSE x \in table : \A y \in table : x.id <= y.id
         IN  <<r>> \o rows_in_order(table \ {r})

\* Storage::find_transaction_address: Shared returns the empty list; Private
\* selects `to` of the transactions of the block's number whose `to` is not
\* null, one element per row.
find_transaction_address(st, table, block_ptr) ==
    IF st = "Shared" THEN Ok(<<>>)
    ELSE LET rows == rows_in_order({r \in table :
                                       /\ r.block_number = block_ptr.number
                                       /\ r.to # None})
         IN  Ok([i \in 1..Len(rows) |-> unwrap(rows[i].to)])

\* ChainStore::balance_address_list.
BalanceAddressList(block_ptr) ==
    /\ created
    /\ returned' = <<"balance_address_list", block_ptr,
                     find_transaction_address(storage, transactions,
                                              block_ptr)>>
    /\ UNCHANGED <<storage, side_vars, table_vars, blocks, network_vars,
                   attempt_vars, txn>>

\* ------------------------------------------------------------ selection set

\* TypeCondition: Any (a name the TLC module has taken), or Only(set of
\* object type names).
TypeConditionAny == <<"Any">>
Only(set) == <<"Only", set>>

\* The object type names, the aliases and names of fields, the directives.
TypeNames == {"A", "B"}
FieldNames == {"a", "b"}
Directives == {<<>>, <<"skip">>}

\* A Field: alias, name, directives.  Its position, arguments and own
\* selection set are carried along and read by none of the operations here.
Field(alias, name) == [alias |-> alias, name |-> name, directives |-> <<>>]
Fields == {Field(None, n) : n \in FieldNames} \cup {Field(Some("a"), "b")}

\* An entry of SelectionSet.items: an object type name and its fields.
Item(name, fields) == [name |-> name, fields |-> fields]

\* Field::response_key: the alias if there is one, else the name.
response_key(field) == unwrap_or(field.alias, field.name)

\* Field::prepend_directives: the new directives, then those of the field.
prepend_directives(field, directives) ==
    [field EXCEPT !.directives = directives \o field.directives]

\* TypeCondition::matches_name.
matches_name(type_cond, name) ==
    IF type_cond = TypeConditionAny THEN TRUE ELSE name \in type_cond[2]

\* merge_field putting the new field in the place of the one with its key.
merge_field_replace(fields, new_field) ==
    [fields |-> [i \in 1..Len(fields) |->
                    IF response_key(fields[i]) = response_key(new_field)
                    THEN new_field ELSE fields[i]] \o
                 (IF \E i \in 1..Len(fields) :
                        response_key(fields[i]) = response_key(new_field)
                  THEN <<>> ELSE <<new_field>>),
     outcome |-> Ok(<<>>)]

\* SelectionSet::merge_field: todo!() when a field of the same response key
\* is there, else the field is pushed at the end.
merge_field(fields, new_field) ==
    IF \E i \in 1..Len(fields) :
          response_key(fields[i]) = response_key(new_field)
    THEN [fields |-> fields, outcome |-> Panic]
    ELSE [fields |-> Append(fields, new_field), outcome |-> Ok(<<>>)]

\* SelectionSet::new: an entry without fields for each type.
new(types) == [i \in 1..Len(types) |-> Item(types[i], <<>>)]

\* SelectionSet::push, from entry i on: the entries before the one that
\* panics keep the field they were given.
RECURSIVE push_from(_, _, _)
push_from(its, i, new_field) ==
    IF i > Len(its) THEN [items |-> its, outcome |-> Ok(<<>>)]
    ELSE LET m == merge_field(its[i].fields, new_field)
         IN  IF m.outcome = Panic THEN [items |-> its, outcome |-> Panic]
             ELSE push_from([its EXCEPT ![i].fields = m.fields], i + 1,
                            new_field)

\* SelectionSet::push.
push(its, new_field) == push_from(its, 1, new_field)

\* SelectionSet::push_fields.
RECURSIVE push_fields(_, _)
push_fields(its, fields) ==
    IF fields = <<>> THEN [items |-> its, outcome |-> Ok(<<>>)]
    ELSE LET p == push(its, Head(fields))
         IN  IF p.outcome = Panic THEN p
             ELSE push_fields(p.items, Tail(fields))

\* The inner loop of SelectionSet::merge: the fields of one entry of `other`
\* go to the entry i of the set, each with the directives before its own.
RECURSIVE merge_fields(_, _, _, _)
merge_fields(its, i, other_fields, directives) ==
    IF other_fields = <<>> THEN [items |-> its, outcome |-> Ok(<<>>)]
    ELSE LET m == merge_field(its[i].fields,
                              prepend_directives(Head(other_fields), directives))
         IN  IF m.outcome = Panic THEN [items |-> its, outcome |-> Panic]
             ELSE merge_fields([its EXCEPT ![i].fields = m.fields], i,
                               Tail(other_fields), directives)

\* SelectionSet::merge: each entry of `other` is merged into the first entry
\* of its name, which `expect`s to find.
RECURSIVE merge(_, _, _)
merge(its, other, directives) ==
    IF other = <<>> THEN [items |-> its, outcome |-> Ok(<<>>)]
    ELSE LET found == {i \in 1..Len(its) : its[i].name = Head(other).name}
         IN  IF found = {} THEN [items |-> its, outcome |-> Panic]
             ELSE LET i == CHOOSE i \in found : \A j \in found : i <= j
                      m == merge_fields(its, i, Head(other).fields, directives)
                  IN  IF m.outcome = Panic THEN m
                      ELSE merge(m.items, Tail(other), directives)

\* SelectionSet::restrict: the entries whose name matches are retained.
restrict(its, type_cond) ==
    SelectSeq(its, LAMBDA it : matches_name(type_cond, it.name))

\* The call on the selection set before this one panicked: the set was
\* lost with the stack that held it.
unwound == Len(returned) = 4 /\ returned[4] = Panic

SelectionFrame ==
    UNCHANGED <<storage, blocks, table_vars, network_vars, attempt_vars, txn,
                created, cache_vars, balance, balance_head_vars,
                balance_early_head_vars, other_blocks>>

New(types) ==
    /\ items' = new(types)
    /\ returned' = <<"new", types, <<>>, Ok(<<>>)>>
    /\ SelectionFrame

Push(new_field) ==
    /\ ~unwound
    /\ items' = push(items, new_field).items
    /\ returned' = <<"push", new_field, <<>>, push(items, new_field).outcome>>
    /\ SelectionFrame

PushFields(fields) ==
    /\ ~unwound
    /\ items' = push_fields(items, fields).items
    /\ returned' = <<"push_fields", fields, <<>>,
                     push_fields(items, fields).outcome>>
    /\ SelectionFrame

Merge(other, directives) ==
    /\ ~unwound
    /\ items' = merge(items, other, directives).items
    /\ returned' = <<"merge", other, directives,
                     merge(items, other, directives).outcome>>
    /\ SelectionFrame

Restrict(type_cond) ==
    /\ ~unwound
    /\ items' = restrict(items, type_cond)
    /\ returned' = <<"restrict", type_cond, <<>>, Ok(<<>>)>>
    /\ SelectionFrame

\* ---------------------------------------------------------------- lifecycle

\* Storage::drop_storage on a table of the chain: Shared deletes the chain's
\* rows of ethereum_blocks and nothing else; Private drops the schema and
\* with it every table of the chain.
drop_storage(st, table, is_blocks) ==
    IF st = "Private" \/ is_blocks THEN {} ELSE table

\* ChainStore::drop_chain: drop_storage and the delete of the chain's row of
\* ethereum_networks, in one transaction.  The row of ethereum_balance is
\* not touched.
DropChain ==
    /\ created
    /\ pc = [w \in Workers |-> "idle"]
    /\ txn = None
    /\ blocks' = drop_storage(storage, blocks, TRUE)
    /\ transactions' = drop_storage(storage, transactions, FALSE)
    /\ receipts' = drop_storage(storage, receipts, FALSE)
    /\ call_cache' = drop_storage(storage, call_cache, FALSE)
    /\ call_meta' = drop_storage(storage, call_meta, FALSE)
    /\ balance' = drop_storage(storage, balance, FALSE)
    /\ created' = FALSE
    /\ head_block_hash' = None
    /\ head_block_number' = None
    /\ early_head_block_hash' = None
    /\ early_head_block_number' = None
    /\ returned' = <<"drop_chain", Ok(<<>>)>>
    /\ UNCHANGED <<storage, sent, attempt_vars, txn, current_date,
                   balance_head_vars, balance_early_head_vars, other_blocks, items>>

\* ChainStore::create for a chain without a row of ethereum_networks: the
\* row is inserted with its pointers NULL and the Private schema is made
\* with empty tables; the insert into ethereum_balance is `on
\* conflict(name) do nothing` and the chain's row is there since the chain
\* was first created.
Create ==
    /\ ~created
    /\ created' = TRUE
    /\ head_block_hash' = None
    /\ head_block_number' = None
    /\ early_head_block_hash' = None
    /\ early_head_block_number' = None
    /\ returned' = <<"create", Ok(<<>>)>>
    /\ UNCHANGED <<storage, table_vars, blocks, sent, attempt_vars, txn,
                   cache_vars, balance, balance_head_vars,
                   balance_early_head_vars, other_blocks, items>>

\* ------------------------------------------------------------------- spec

\* ChainStore::create, the rest: the row of ethereum_balance with its four
\* pointer columns NULL and the empty tables of the schema; no other chain
\* has written to the shared table.
InitSide ==
    /\ created = TRUE
    /\ call_cache = {}
    /\ call_meta = {}
    /\ current_date = 0
    /\ balance = {}
    /\ balance_head_block_hash = None
    /\ balance_head_block_number = None
    /\ balance_early_head_block_hash = None
    /\ balance_early_head_block_number = None
    /\ other_blocks = {}
    /\ items = <<>>

Init ==
    /\ InitSide
    /\ storage \in {"Shared", "Private"}
    /\ blocks = {}
    /\ head_block_hash = None
    /\ head_block_number = None
    /\ early_head_block_hash = None
    /\ early_head_block_number = None
    /\ sent = <<>>
    /\ txn = None
    /\ transactions = {}
    /\ receipts = {}
    /\ pc = [w \in Workers |-> "idle"]
    /\ ancestor_count = [w \in Workers |-> 0]
    /\ head = [w \in Workers |-> -1]
    /\ candidate = [w \in Workers |-> None]
    /\ returned = <<"none">>

\* The store's other callers.
Ingest ==
    \/ \E bs \in Batches : UpsertLightBlocks(bs)
    \/ \E b \in Universe : UpsertBlock(b)

\* Ingestion with the upsert_block transaction in flight as a state.
IngestInFlight ==
    \/ \E bs \in Batches : UpsertLightBlocks(bs)
    \/ \E b \in Universe : UpsertBlockBegin(b)
    \/ UpsertBlockCommit
    \/ UpsertBlockRollback

Maintain ==
    \/ \E c \in Confirmations : ConfirmBlockHash(c[1], c[2])
    \/ \E k \in 0..MaxAncestorCount, m \in MinSubgraphHeads :
           CleanupCachedBlocks(k, m)

\* One caller of attempt_chain_head_update (the block ingestor), with
\* ingestion, reorg confirmation and retention running beside it.
Next ==
    \/ AttemptObserved(1)
    \/ (Ingest /\ UNCHANGED returned)
    \/ (Maintain /\ UNCHANGED returned)

Spec == Init /\ [][Next]_vars

\* Two concurrent callers of attempt_chain_head_update while the first
\* blocks of the chain (numbers 0 to 2) are ingested.
NextConcurrent ==
    \/ \E w \in Workers : AttemptStep(w) /\ UNCHANGED returned
    \/ \E b \in {u \in Universe : u.number <= 2} :
          UpsertLightBlocks(<<b>>) /\ UNCHANGED returned

SpecConcurrent == Init /\ [][NextConcurrent]_vars

\* One caller of attempt_chain_head_update while upsert_block transactions
\* are in flight.
NextInFlight ==
    \/ AttemptObserved(1)
    \/ (IngestInFlight /\ UNCHANGED returned)

SpecInFlight == Init /\ [][NextInFlight]_vars

\* confirm_block_hash beside ingestion, every call's return value recorded.
NextReorg ==
    \/ (Ingest /\ returned' = <<"upsert">>)
    \/ \E n \in 0..MaxNumber, h \in Hashes \cup {ZeroHash} :
          /\ ConfirmBlockHash(n, h)
          /\ returned' = <<"confirm_block_hash", n, h,
                           confirm_block_hash(blocks, n, h)>>

SpecReorg == Init /\ [][NextReorg]_vars

\* Retention: the ingestor upserts light blocks and advances the head while
\* cleanup_cached_blocks runs; each cleanup call is observed with its
\* arguments (ancestor_count and the minimum head of the chain's consumers).
NextRetention ==
    \/ (\E bs \in Batches : UpsertLightBlocks(bs)) /\ returned' = <<"none">>
    \/ AttemptStep(1) /\ returned' = <<"none">>
    \/ \E k \in 0..MaxAncestorCount, m \in MinSubgraphHeads :
          /\ CleanupCachedBlocks(k, m)
          /\ returned' = <<"cleanup_cached_blocks", k, m>>

SpecRetention == Init /\ [][NextRetention]_vars

\* Ingestion of full blocks with their transactions and receipts and of
\* light blocks, each call observed with its argument and its outcome,
\* failures of single statements included.
NextPayload ==
    \/ \E b \in FullBlocks :
          /\ UpsertBlock(b)
          /\ returned' = <<"upsert_block", b, Ok(<<>>)>>
    \/ \E b \in FullBlocks, at \in {"block", "receipts", "transactions"} :
          /\ UpsertBlockFails(b, at)
          /\ returned' = <<"upsert_block", b, upsert_block_failure(storage, at)>>
    \/ \E bs \in LightBatches :
          /\ UpsertLightBlocks(bs)
          /\ returned' = <<"upsert_light_blocks", bs, Ok(<<>>)>>
    \/ \E bs \in LightBatches, i \in 1..2 :
          /\ UpsertLightBlocksFails(bs, i)
          /\ returned' = <<"upsert_light_blocks", bs, Err("StoreError")>>

SpecPayload == Init /\ [][NextPayload]_vars

\* The pointer readers over every content of the two pointer pairs of the
\* chain's row, columns that are NULL on one side only included: the readers
\* match on what they load, whoever wrote it.
PointerHashes == {None} \cup {Some(h) : h \in {GenesisHash, GenesisHash + 1}}
PointerNumbers == {None} \cup {Some(NumberOf(h)) : h \in {GenesisHash, GenesisHash + 1}}

InitPointers ==
    /\ InitSide
    /\ storage \in {"Shared", "Private"}
    /\ blocks = {}
    /\ head_block_hash \in PointerHashes
    /\ head_block_number \in PointerNumbers
    /\ early_head_block_hash \in PointerHashes
    /\ early_head_block_number \in PointerNumbers
    /\ sent = <<>>
    /\ txn = None
    /\ transactions = {}
    /\ receipts = {}
    /\ pc = [w \in Workers |-> "idle"]
    /\ ancestor_count = [w \in Workers |-> 0]
    /\ head = [w \in Workers |-> -1]
    /\ candidate = [w \in Workers |-> None]
    /\ returned = <<"none">>

ReadPointer(name, result) ==
    /\ returned' = <<name, result>>
    /\ UNCHANGED <<storage, side_vars, table_vars, blocks, network_vars, attempt_vars, txn>>

NextPointers ==
    \/ ReadPointer("chain_head_ptr",
                   match_pointer(head_block_hash, head_block_number))
    \/ ReadPointer("chain_early_head_ptr",
                   match_pointer(early_head_block_hash, early_head_block_number))
    \/ ReadPointer("chain_head_pointers",
                   chain_head_pointers(head_block_hash, head_block_number))
    \/ \E h \in {GenesisHash, GenesisHash + 1} :
          /\ EarlyAttemptChainHeadUpdate(NumberOf(h), h)
          /\ returned' = <<"early_attempt_chain_head_update", Ok(<<>>)>>

SpecPointers == InitPointers /\ [][NextPointers]_vars

\* ancestor_block over the stores the upserts make.  The pointers are those
\* of the universe's blocks, and the same hashes with a number one too high.
Pointers ==
    {BlockPtr(h, n) : h \in Hashes, n \in 0..MaxNumber + 1}
        \cap {BlockPtr(h, NumberOf(h) + d) : h \in Hashes, d \in {0, 1}}

AncestorBlock(block_ptr, offset) ==
    LET r == ancestor_block(blocks \cup other_rows(storage, other_blocks),
                            block_ptr, offset)
    IN  /\ returned' = <<"ancestor_block", block_ptr, offset, r.read, r.result>>
        /\ UNCHANGED <<storage, side_vars, table_vars, blocks, network_vars,
                       attempt_vars, txn>>

NextAncestor ==
    \/ (\E bs \in Batches : UpsertLightBlocks(bs)) /\ returned' = <<"none">>
    \/ /\ \E b \in FullBlocks : b.hash = GenesisHash + 1 /\ UpsertBlock(b)
       /\ returned' = <<"none">>
    \/ \E block_ptr \in Pointers, offset \in 0..MaxNumber :
          AncestorBlock(block_ptr, offset)

SpecAncestor == Init /\ [][NextAncestor]_vars

\* The life of a chain: it is written to, dropped and created again.
LifecycleBlock == [Block(GenesisHash) EXCEPT !.transactions = <<10>>]

NextLifecycle ==
    \/ /\ created
       /\ \/ UpsertLightBlocks(<<Block(GenesisHash)>>)
          \/ UpsertBlock(LifecycleBlock)
       /\ returned' = <<"none">>
    \/ created /\ Len(sent) < MaxSent /\ AttemptObserved(1)
    \/ /\ created
       /\ EarlyAttemptChainHeadUpdate(0, GenesisHash)
       /\ returned' = <<"none">>
    \/ /\ created
       /\ \/ ChainUpdateBalanceHead(BlockPtr(GenesisHash, 0))
          \/ ChainUpdateBalanceEarlyHead(BlockPtr(GenesisHash, 0))
       /\ returned' = <<"none">>
    \/ \E b \in CallBlocks : SetCall(<<1>>, <<>>, b, <<10>>)
    \/ DropChain
    \/ Create

SpecLifecycle == Init /\ [][NextLifecycle]_vars

\* The block ingestor's loop: attempt_chain_head_update(k) is called round
\* after round, the block it reports missing is fetched and upserted before
\* the next round, and the loop ends with the round that returns None.
\* Before the loop blocks are ingested in any order and the head is advanced;
\* during it nothing else writes to the store and no statement fails.  The
\* observation is the round, its argument and what it returned.
Fetched == <<"Fetched">>
in_loop == returned[1] = "round"
Round(k, n, v) == returned' = <<"round", k, n, v>>

BeforeLoop ==
    /\ ~in_loop
    /\ \/ \E b \in Universe : UpsertLightBlocks(<<b>>)
       \/ AttemptStep(1)
    /\ UNCHANGED returned

LoopStart ==
    /\ ~in_loop
    /\ \E k \in 0..MaxAncestorCount : AttemptReadHead(1, k) /\ Round(k, 1, Pending)

LoopRound ==
    /\ in_loop
    /\ \/ /\ returned[4] = Fetched
          /\ AttemptReadHead(1, returned[2])
          /\ Round(returned[2], returned[3] + 1, Pending)
       \/ /\ AttemptSelectCandidate(1)
          /\ IF chain_head_candidate(visible_blocks(blocks, txn), head[1]) = None
             THEN Round(returned[2], returned[3], Ok(None))
             ELSE UNCHANGED returned
       \/ /\ AttemptMissingParent(1)
          /\ IF is_some(missing_of(1))
             THEN Round(returned[2], returned[3], Ok(missing_of(1)))
             ELSE UNCHANGED returned
       \/ /\ AttemptUpdateHead(1)
          /\ UNCHANGED returned
       \/ /\ AttemptSend(1)
          /\ Round(returned[2], returned[3], Ok(None))

LoopFetch ==
    /\ in_loop
    /\ returned[4][1] = "Ok"
    /\ is_some(returned[4][2])
    /\ UpsertLightBlocks(<<Block(unwrap(returned[4][2]))>>)
    /\ Round(returned[2], returned[3], Fetched)

NextProgress == BeforeLoop \/ LoopStart \/ LoopRound \/ LoopFetch

SpecProgress ==
    Init /\ [][NextProgress]_vars /\ WF_vars(LoopRound \/ LoopFetch)

\* A selection set is made, fields are pushed and other sets merged into it,
\* and it is restricted to a type condition.
SelectionTypes == {<<>>, <<"A">>, <<"A", "B">>, <<"A", "A">>}
FieldLists == {<<f, g>> : f \in Fields, g \in Fields}
OtherSets ==
    {<<Item(t, <<f>>)>> : t \in TypeNames, f \in Fields}
      \cup {<<Item("A", <<f>>), Item("B", <<g>>)>> : f \in Fields, g \in Fields}
TypeConditions == {TypeConditionAny} \cup {Only(set) : set \in SUBSET TypeNames}

NextSelection ==
    \/ \E types \in SelectionTypes : New(types)
    \/ \E f \in Fields : Push(f)
    \/ \E fs \in FieldLists : PushFields(fs)
    \/ \E other \in OtherSets, ds \in Directives : Merge(other, ds)
    \/ \E c \in TypeConditions : Restrict(c)

SpecSelection == Init /\ [][NextSelection]_vars

\* Two chains: this one and another one in shared storage, which ingests
\* blocks of its own.
OtherBatches == {<<Block(h)>> : h \in {GenesisHash, GenesisHash + 1, MaxHash}}

NextChains ==
    \/ (\E bs \in Batches : UpsertLightBlocks(bs)) /\ returned' = <<"none">>
    \/ (\E bs \in OtherBatches : OtherUpsertLightBlocks(bs))
          /\ returned' = <<"none">>
    \/ \E h \in Hashes : BlockNumber(h)

SpecChains == Init /\ [][NextChains]_vars

\* The four pointer pairs of the chain and their writers, over a chain of
\* two blocks.
HeadBlocks == {BlockPtr(h, NumberOf(h)) : h \in {GenesisHash, GenesisHash + 1}}

NextHeads ==
    \/ /\ \E bp \in HeadBlocks : UpsertLightBlocks(<<Block(bp.hash)>>)
       /\ returned' = <<"none">>
    \/ AttemptObserved(1)
    \/ \E bp \in HeadBlocks :
          /\ EarlyAttemptChainHeadUpdate(bp.number, bp.hash)
          /\ returned' = <<"early_attempt_chain_head_update", bp, Ok(<<>>)>>
    \/ \E bp \in HeadBlocks :
          /\ ChainUpdateBalanceHead(bp)
          /\ returned' = <<"chain_update_balance_head", bp, Ok(1)>>
    \/ \E bp \in HeadBlocks :
          /\ ChainUpdateBalanceEarlyHead(bp)
          /\ returned' = <<"chain_update_balance_early_head", bp, Ok(1)>>

SpecHeads == Init /\ [][NextHeads]_vars

\* The addresses to refresh after a block, over the transactions that
\* upsert_block stores.
NextAddresses ==
    \/ (\E b \in TransferBlocks : UpsertBlock(b)) /\ returned' = <<"none">>
    \/ \E h \in Hashes : BalanceAddressList(BlockPtr(h, NumberOf(h)))

SpecAddresses == Init /\ [][NextAddresses]_vars

\* The balance ledger under upsert_balance.
NextBalance ==
    \E a \in Addresses, u \in Amounts, bp \in BalanceBlocks :
        UpsertBalance(a, u, bp)

SpecBalance == Init /\ [][NextBalance]_vars

\* Balances written for the two blocks of one number, the block at
\* SiblingHash and its sibling (what a reorganisation leaves behind).
SiblingPointers ==
    {BlockPtr(h, NumberOf(h)) : h \in {SiblingHash - 1, SiblingHash}}

NextBalanceReorg ==
    \E a \in Addresses, u \in Amounts, bp \in SiblingPointers :
        UpsertBalance(a, u, bp)

SpecBalanceReorg == Init /\ [][NextBalanceReorg]_vars

\* The call cache: calls of get_call and set_call while the days pass.
\* The calls written: one call, and the calls that differ from it in the
\* contract, in the encoded call or in the block.  Every call is read.
WrittenCalls ==
    {k \in Contracts \X EncodedCalls \X CallBlocks :
        Cardinality({i \in 1..3 :
            k[i] # <<<<1>>, <<>>, BlockPtr(GenesisHash, 0)>>[i]}) <= 1}

NextCallCache ==
    \/ \E c \in Contracts, e \in EncodedCalls, b \in CallBlocks :
          GetCall(c, e, b)
    \/ \E k \in WrittenCalls, v \in ReturnValues :
          SetCall(k[1], k[2], k[3], v)
    \/ AdvanceDate

SpecCallCache == Init /\ [][NextCallCache]_vars

\* Storage::missing_parent over the contents of the blocks table.  The
\* shared table declares parent_hash Nullable, so its content may hold a
\* row without a parent hash beside the rows the upserts write; the private
\* table declares it not null.
NullParentRows(st) ==
    IF st = "Shared"
    THEN {[Block(h) EXCEPT !.parent_hash = NullHash] :
              h \in {GenesisHash + 1, GenesisHash + 2}}
    ELSE {}

InitWalk ==
    /\ InitSide
    /\ storage \in {"Shared", "Private"}
    /\ blocks \in SUBSET NullParentRows(storage)
    /\ head_block_hash = None
    /\ head_block_number = None
    /\ early_head_block_hash = None
    /\ early_head_block_number = None
    /\ sent = <<>>
    /\ txn = None
    /\ transactions = {}
    /\ receipts = {}
    /\ pc = [w \in Workers |-> "idle"]
    /\ ancestor_count = [w \in Workers |-> 0]
    /\ head = [w \in Workers |-> -1]
    /\ candidate = [w \in Workers |-> None]
    /\ returned = <<"none">>

MissingParent(first_block, hash) ==
    LET missing == missing_rows(blocks, first_block, hash, GenesisHash)
    IN  /\ returned' = <<"missing_parent", first_block, hash,
                         missing_parent_match(missing)>>
        /\ UNCHANGED <<storage, side_vars, table_vars, blocks, network_vars,
                       attempt_vars, txn>>

NextWalk ==
    \/ (\E bs \in Batches : UpsertLightBlocks(bs)) /\ returned' = <<"none">>
    \/ \E first_block \in 0..MaxNumber, hash \in Hashes :
          MissingParent(first_block, hash)

SpecWalk == InitWalk /\ [][NextWalk]_vars

\* ------------------------------------------------------------------------
\* Properties of attempt_chain_head_update and of the block cache.

\* The step that worker w takes out of position p.
leaves(w, p) == pc[w] = p /\ pc'[w] # p

\* The chain head as one pointer, after the step.
chain_head_ptr_next ==
    IF head_block_hash' = None \/ head_block_number' = None THEN None
    ELSE Some(BlockPtr(unwrap(head_block_hash'), unwrap(head_block_number')))

\* What attempt_chain_head_update returned to worker w, once it has.
attempt_returned(w) ==
    /\ returned[1] = "attempt_chain_head_update"
    /\ returned[2] = w
    /\ returned[3][1] # "Pending"

\* The stored blocks met by following parent_hash from block h, h first.
RECURSIVE parent_chain(_, _)
parent_chain(blks, h) ==
    IF ~stored(blks, h) THEN <<>>
    ELSE <<row(blks, h)>> \o parent_chain(blks, row(blks, h).parent_hash)

\* The positions of parent_chain that the missing-parent check looks at: the
\* candidate, and each ancestor reached before an ancestor that is the genesis
\* block or has a number at or below first_block.
checked(chain, first_block) ==
    {i \in 1..Len(chain) :
        \A j \in 2..i : /\ chain[j].number > first_block
                        /\ chain[j].hash # GenesisHash}

\* C1: when the candidate's parent chain has a missing block, the call
\* returns Ok(Some(hash of the missing block)) and leaves the chain head and
\* the notifications as they were; nothing before the update step changes the
\* chain head.
C1_MissingParentLeavesHead ==
    [][\A w \in Workers :
        /\ (leaves(w, "missing_parent") /\ is_some(missing_of(w)))
              => /\ returned' = <<"attempt_chain_head_update", w, Ok(missing_of(w))>>
                 /\ pc'[w] = "idle"
                 /\ UNCHANGED network_vars
        /\ (leaves(w, "idle") \/ leaves(w, "select") \/ leaves(w, "missing_parent"))
              => UNCHANGED network_vars]_vars

\* A call returned the missing block C while the head stayed at B.
C1_Witness ==
    /\ attempt_returned(1)
    /\ returned[3] = Ok(Some(5))
    /\ chain_head_ptr = Some(BlockPtr(3, 2))
    /\ stored(blocks, 6)
    /\ ~stored(blocks, 5)

\* C2: the head block number never decreases.
C2_HeadNeverDecreases ==
    [][is_some(head_block_number)
          => /\ is_some(head_block_number')
             /\ unwrap(head_block_number') >= unwrap(head_block_number)]_vars

\* C3: a chain head that is set names a stored block with that hash and
\* number.
C3_HeadIsStored ==
    is_some(chain_head_ptr)
       => \E b \in blocks : /\ b.hash = unwrap(chain_head_ptr).hash
                            /\ b.number = unwrap(chain_head_ptr).number

\* C4, as stated: every stored block with a number above 0 and below the
\* head block number has its parent stored.
C4_EveryBlockBelowHeadHasParent ==
    \A b \in blocks :
        (is_some(head_block_number) /\ 0 < b.number
            /\ b.number < unwrap(head_block_number))
           => stored(blocks, b.parent_hash)

\* C4, amended: when the missing-parent check lets the update go ahead, every
\* block the check looked at (the candidate and its ancestors above
\* first_block, the genesis block excepted) has its parent stored.
C4_CheckedBlocksHaveParent ==
    [][\A w \in Workers :
        (pc[w] = "missing_parent" /\ pc'[w] = "update")
           => LET c == unwrap(candidate[w])
                  chain == parent_chain(blocks, c.hash)
              IN  \A i \in checked(chain, first_block_of(c, ancestor_count[w])) :
                      chain[i].hash # GenesisHash
                         => stored(blocks, chain[i].parent_hash)]_vars

\* The update is about to go ahead while a stored block below the candidate
\* has no parent in the store.
C4_Witness ==
    /\ pc[1] = "update"
    /\ \E b \in blocks : /\ 0 < b.number
                         /\ b.number < unwrap(candidate[1]).number
                         /\ ~stored(blocks, b.parent_hash)

\* The first block missing from the chain of block c down to first_block, as
\* the doc comment of missing_parent has it: the parent that the last checked
\* block of the chain names and the store does not hold.
expected_missing(blks, c, first_block) ==
    LET chain == parent_chain(blks, c.hash)
        n == Len(chain)
    IN  IF n = 0 \/ c.hash = GenesisHash THEN None
        ELSE IF n \in checked(chain, first_block)
                   /\ chain[n].hash # GenesisHash
                   /\ (n = 1 \/ chain[n].number > first_block)
             THEN Some(chain[n].parent_hash)
             ELSE None

\* C5, as stated: a hash returned for a gap is the hash of a stored block
\* whose parent is absent from the store.
C5_ReturnsBlockWithAbsentParent ==
    [][\A w \in Workers :
        (leaves(w, "missing_parent") /\ pc'[w] = "idle")
           => LET h == unwrap(returned'[3][2])
              IN  /\ stored(blocks, h)
                  /\ ~stored(blocks, row(blocks, h).parent_hash)]_vars

\* C5, amended: for a gap within the checked range the call returns the hash
\* of the absent block, the parent named by the deepest stored block of the
\* candidate's chain, and leaves the head alone; it goes on to the update
\* when the chain is complete back to first_block or to the genesis block.
C5_ReturnsAbsentBlock ==
    [][\A w \in Workers :
        leaves(w, "missing_parent")
           => LET c == unwrap(candidate[w])
                  e == expected_missing(blocks, c,
                                        first_block_of(c, ancestor_count[w]))
              IN  IF is_some(e)
                  THEN /\ returned' = <<"attempt_chain_head_update", w, Ok(e)>>
                       /\ ~stored(blocks, unwrap(e))
                       /\ \E b \in blocks : b.parent_hash = unwrap(e)
                       /\ pc'[w] = "idle"
                       /\ chain_head_ptr_next = chain_head_ptr
                  ELSE pc'[w] = "update"]_vars

\* With G, A, B and D stored and the head at (B,2), the call returned the
\* hash of C, the block that is not stored.
C5_Witness ==
    /\ blocks = {Block(1), Block(2), Block(3), Block(6)}
    /\ chain_head_ptr = Some(BlockPtr(3, 2))
    /\ returned = <<"attempt_chain_head_update", 1, Ok(Some(5))>>
    /\ pc[1] = "idle"

\* The blocks above the registry's head block number.
above_head == {b \in blocks : b.number > unwrap_or(head_block_number, -1)}

\* C6: the candidate is a stored block above the current head that no other
\* such block beats, by a higher number or by a smaller hash at the same
\* number; the update sets the head to that candidate and to no other block.
\* (Stated for a call that is the only writer of the head while it runs;
\* calls that overlap are the subject of C2.)
C6_CandidateIsHighestSmallestHash ==
    [][\A w \in Workers :
        /\ leaves(w, "select")
              => IF above_head = {} THEN pc'[w] = "idle"
                 ELSE /\ pc'[w] = "missing_parent"
                      /\ is_some(candidate'[w])
                      /\ LET p == unwrap(candidate'[w])
                         IN  /\ \E b \in above_head :
                                    b.hash = p.hash /\ b.number = p.number
                             /\ ~\E b \in above_head :
                                    \/ b.number > p.number
                                    \/ b.number = p.number /\ b.hash < p.hash
        /\ (pc[w] = "update" /\ pc'[w] = "send")
              => chain_head_ptr_next = candidate[w]
        /\ (pc[w] \in {"missing_parent", "update"}
                /\ pc'[w] \in {"missing_parent", "update"})
              => candidate'[w] = candidate[w]]_vars

\* With both blocks of number 2 stored over G and A, the head was set to the
\* one with the smaller hash and announced once.
C6_Witness ==
    /\ blocks = {Block(1), Block(2), Block(3), Block(4)}
    /\ chain_head_ptr = Some(BlockPtr(3, 2))
    /\ sent = <<BlockPtr(3, 2)>>
    /\ returned = <<"attempt_chain_head_update", 1, Ok(None)>>

\* C7: when no stored block is above the current head, the call returns
\* Ok(None) without changing the registry row or sending a notification; the
\* chain head is None as long as no update has been committed, as it is on an
\* empty chain.
C7_NothingAboveHeadNoChange ==
    /\ [](blocks = {} /\ sent = <<>> /\ (\A w \in Workers : pc[w] # "send")
            => chain_head_ptr = None)
    /\ [][\A w \in Workers :
            (leaves(w, "select") /\ above_head = {})
               => /\ returned' = <<"attempt_chain_head_update", w, Ok(None)>>
                  /\ pc'[w] = "idle"
                  /\ UNCHANGED <<network_vars, blocks>>]_vars

\* A call repeated after an advancement to (B,2), with nothing new above the
\* head, returned None and the one notification of the advancement stands.
C7_Witness ==
    /\ blocks = {Block(1), Block(2), Block(3)}
    /\ chain_head_ptr = Some(BlockPtr(3, 2))
    /\ sent = <<BlockPtr(3, 2)>>
    /\ returned = <<"attempt_chain_head_update", 1, Ok(None)>>
    /\ pc[1] = "idle"
    /\ head[1] = -1

C9_OnlyCommittedBlocks ==
    [][\A w \in Workers :
        /\ (pc[w] = "select" /\ pc'[w] = "missing_parent")
              => /\ stored(blocks, unwrap(candidate'[w]).hash)
                 /\ txn' = txn
        /\ (pc[w] = "missing_parent" /\ pc'[w] = "update"
                /\ unwrap(candidate[w]).hash # GenesisHash
                /\ first_block_of(unwrap(candidate[w]), ancestor_count[w])
                       < unwrap(candidate[w]).number)
              => stored(blocks, Block(unwrap(candidate[w]).hash).parent_hash)
        /\ (pc[w] = "update" /\ pc'[w] = "send")
              => chain_head_ptr_next = candidate[w]]_vars

\* The call returned A as missing while the upsert of A was in flight, G and
\* B being committed.
C9_Witness ==
    /\ txn = Some(Block(2))
    /\ blocks = {Block(1), Block(3)}
    /\ returned = <<"attempt_chain_head_update", 1, Ok(Some(2))>>
    /\ chain_head_ptr = None

\* C10: confirm_block_hash(n, h) deletes exactly the stored blocks at number
\* n whose hash is not h and returns how many they were; called again with
\* the same arguments and nothing in between, it deletes nothing and returns 0.
C10_ConfirmDeletesOthersOnce ==
    [][(returned'[1] = "confirm_block_hash" /\ returned' # returned)
          => LET n == returned'[2]
                 h == returned'[3]
                 count == returned'[4]
             IN  /\ blocks' = {b \in blocks : ~(b.number = n /\ b.hash # h)}
                 /\ count = Cardinality({b \in blocks : b.number = n /\ b.hash # h})
                 /\ (returned[1] = "confirm_block_hash"
                        /\ returned[2] = n /\ returned[3] = h)
                       => (count = 0 /\ blocks' = blocks)]_vars

\* With B and B' at number 2, confirm_block_hash(2, B) deleted B' and
\* returned 1.
C10_Witness ==
    /\ returned = <<"confirm_block_hash", 2, 3, 1>>
    /\ stored(blocks, 3)
    /\ ~stored(blocks, 4)

observed(name) == returned'[1] = name /\ returned' # returned

\* C12: after an upsert_block(B) that commits, blocks([B.hash]) returns
\* exactly the light block of B and block_hashes_by_block_number(B.number)
\* contains B.hash, in either storage variant.
C12_UpsertBlockRoundTrip ==
    [][(observed("upsert_block") /\ returned'[3][1] = "Ok")
          => LET b == returned'[2]
             IN  /\ blocks_of(blocks', {b.hash}) = {light(b)}
                 /\ b.hash \in block_hashes_by_block_number(blocks', b.number)]_vars

\* C13: a call has the same effect on what the readers observe in both
\* variants: an upsert_block that commits leaves the blocks that the Private
\* variant leaves.
C13_VariantsAgree ==
    [][(observed("upsert_block") /\ returned'[3][1] = "Ok")
          => blocks' = upsert_block("Private", blocks, returned'[2])]_vars

\* C14: upsert_light_blocks leaves every stored block row as it is, payload
\* and receipts included, and adds a row only for a hash that was absent; it
\* writes no receipt and no transaction row.
C14_LightUpsertKeepsRows ==
    [][observed("upsert_light_blocks")
          => /\ blocks \subseteq blocks'
             /\ \A r \in blocks' \ blocks :
                   /\ ~stored(blocks, r.hash)
                   /\ r.transaction_receipts = <<>>
                   /\ \E i \in 1..Len(returned'[2]) : r = returned'[2][i]
             /\ returned'[3][1] = "Ok"
                   => \A i \in 1..Len(returned'[2]) :
                          stored(blocks', returned'[2][i].hash)
             /\ UNCHANGED table_vars]_vars

\* The light block of B was upserted after the full block of B with two
\* logs, and the stored row still carries the receipts.
C14_Witness ==
    /\ returned = <<"upsert_light_blocks", <<light(EthereumBlock(3, 2))>>, Ok(<<>>)>>
    /\ EthereumBlock(3, 2) \in blocks

\* C15: after an upsert_block that commits on a Private chain, every log of
\* the block's receipts has a receipt row of its transaction_hash and
\* log_index.
C15_OneReceiptRowPerLog ==
    [][(observed("upsert_block") /\ returned'[3][1] = "Ok" /\ storage = "Private")
          => LET b == returned'[2]
             IN  \A j \in 1..Len(b.transaction_receipts) :
                     \A i \in 1..Len(b.transaction_receipts[j]) :
                         \E r \in receipts' :
                             /\ r.transaction_hash
                                    = b.transaction_receipts[j][i].transaction_hash
                             /\ r.log_index
                                    = b.transaction_receipts[j][i].log_index]_vars

\* C16: an upsert_block that fails returns an error value and leaves no
\* block, transaction or receipt row of the call behind.
C16_FailureIsAnErrorValue ==
    [][(observed("upsert_block") /\ returned'[3][1] # "Ok")
          => /\ returned'[3][1] = "Err"
             /\ UNCHANGED <<blocks, transactions, receipts>>]_vars

\* C17: an upsert_light_blocks that returns an error has stored none of the
\* blocks of the call.
C17_LightUpsertAllOrNothing ==
    [][(observed("upsert_light_blocks") /\ returned'[3][1] = "Err")
          => blocks' = blocks]_vars

\* What the pointer readers are to return for the columns hash_opt and
\* number_opt: None for two NULLs, the pointer for two values, and the error
\* ConstraintViolation when exactly one of them is NULL.
expected_pointer(hash_opt, number_opt) ==
    IF is_some(hash_opt) /\ is_some(number_opt)
    THEN Ok(Some(BlockPtr(unwrap(hash_opt), unwrap(number_opt))))
    ELSE IF hash_opt = None /\ number_opt = None THEN Ok(None)
    ELSE Err("ConstraintViolation")

\* The same for chain_head_pointers, whose value is the set of the chains'
\* pointers: no entry for two NULLs, the pointer for two values.
expected_pointers(hash_opt, number_opt) ==
    IF is_some(hash_opt) /\ is_some(number_opt)
    THEN Ok({BlockPtr(unwrap(hash_opt), unwrap(number_opt))})
    ELSE IF hash_opt = None /\ number_opt = None THEN Ok({})
    ELSE Err("ConstraintViolation")

C20_AncestorIsOffsetParentsBack ==
    [][observed("ancestor_block") =>
          LET ptr == returned'[2]
              offset == returned'[3]
              read == returned'[4]
              result == returned'[5]
              chain == parent_chain(blocks, ptr.hash)
          IN  /\ offset > ptr.number => ~read /\ result = Err("precondition")
              /\ offset <= ptr.number /\ Len(chain) > offset
                    => read /\ result = Ok(Some(chain[offset + 1]))
              /\ offset = 0 /\ stored(blocks, ptr.hash)
                    => result = Ok(Some(row(blocks, ptr.hash)))
              /\ offset = ptr.number /\ Len(chain) = ptr.number + 1
                    => result = Ok(Some(row(blocks, GenesisHash)))]_vars

\* An ancestor_block call two parents back on a complete chain has returned
\* the genesis block, and the store holds other blocks as well.
C20_Witness ==
    /\ returned[1] = "ancestor_block"
    /\ returned[2] = BlockPtr(GenesisHash + 2, 2)
    /\ returned[3] = 2
    /\ returned[5] = Ok(Some(Block(GenesisHash)))
    /\ stored(blocks, SiblingHash)

\* C21: ancestor_block(ptr, offset) with offset <= ptr.number reports an
\* ancestor that is not stored as None and never as an error, whether ptr
\* itself is not stored, the parent chain breaks before offset steps, or the
\* block exactly offset steps back is not stored.
C21_NotFoundAncestorIsNone ==
    [][observed("ancestor_block") =>
          LET ptr == returned'[2]
              offset == returned'[3]
              result == returned'[5]
              chain == parent_chain(blocks, ptr.hash)
          IN  offset <= ptr.number /\ Len(chain) <= offset
                 => result = Ok(None)]_vars

\* What get_call(c, e, b) returns in the current state.
cached(c, e, b) ==
    get_call(call_cache, call_meta, current_date, c, e, b).result

cached_next(c, e, b) ==
    get_call(call_cache', call_meta', current_date', c, e, b).result

\* C22: the call cache is a write-once map keyed by (encoded call, contract
\* address, block hash).  Nothing is cached at first; a set_call of v caches
\* v for its own triple if nothing is cached for it and changes no triple
\* otherwise; no other step changes what is cached; and get_call returns
\* what is cached for its triple.
C22_CallCacheIsWriteOnce ==
    /\ \A c \in Contracts, e \in EncodedCalls, b \in CallBlocks :
          cached(c, e, b) = Ok(None)
    /\ [][/\ \A c \in Contracts, e \in EncodedCalls, b \in CallBlocks :
                cached_next(c, e, b) =
                    IF /\ observed("set_call")
                       /\ <<c, e, b.hash>> = <<returned'[2], returned'[3],
                                               returned'[4].hash>>
                       /\ cached(c, e, b) = Ok(None)
                    THEN Ok(Some(returned'[5]))
                    ELSE cached(c, e, b)
          /\ observed("get_call")
                => returned'[5] = cached(returned'[2], returned'[3],
                                         returned'[4])]_vars

\* A second set_call for a cached triple, with another value, has returned
\* and the first value is still the cached one; another triple of the same
\* contract and call at another block is not cached.
C22_Witness ==
    /\ returned[1] = "set_call"
    /\ returned[5] = <<11>>
    /\ cached(returned[2], returned[3], returned[4]) = Ok(Some(<<10>>))
    /\ \E b \in CallBlocks : cached(returned[2], returned[3], b) = Ok(None)

\* The accessed_at of a contract's meta row, None without a row.
accessed_at(meta, contract_address) ==
    IF \E m \in meta : m.contract_address = contract_address
    THEN Some((CHOOSE m \in meta :
                   m.contract_address = contract_address).accessed_at)
    ELSE None

\* C23: a set_call for a contract that has a meta row sets accessed_at to
\* the current date when the stored date is earlier and writes no meta row
\* when the stored date is the current date; after every committed set_call
\* the contract's accessed_at is the current date.
C23_SetCallRefreshesAccessedAt ==
    [][observed("set_call") =>
          LET contract == returned'[2]
              rows == returned'[6]
              before == accessed_at(call_meta, contract)
          IN  /\ accessed_at(call_meta', contract) = Some(current_date)
              /\ before = Some(current_date) => rows = 0]_vars

\* C24: a get_call that hits an entry whose contract's accessed_at is
\* earlier than the current date sets that accessed_at to the current date
\* in the step of the lookup and leaves every other meta row alone; a
\* get_call that misses, or hits an entry accessed today, leaves the meta
\* table unchanged; no get_call changes the cache table.
C24_GetCallTouchesStaleMetaOnly ==
    [][observed("get_call") =>
          LET contract == returned'[2]
              hit == returned'[5] # Ok(None)
              before == accessed_at(call_meta, contract)
          IN  /\ call_cache' = call_cache
              /\ IF hit /\ unwrap(before) < current_date
                 THEN /\ accessed_at(call_meta', contract) = Some(current_date)
                      /\ \A c \in Contracts \ {contract} :
                            accessed_at(call_meta', c) = accessed_at(call_meta, c)
                 ELSE call_meta' = call_meta]_vars

\* A get_call has hit an entry on a later day than the day of its set_call
\* and the contract's accessed_at is the current date, while the other
\* contract's meta row still carries the earlier date.
C24_Witness ==
    /\ returned[1] = "get_call"
    /\ returned[5] # Ok(None)
    /\ current_date > 0
    /\ accessed_at(call_meta, returned[2]) = Some(current_date)
    /\ \E c \in Contracts : /\ is_some(accessed_at(call_meta, c))
                            /\ unwrap(accessed_at(call_meta, c)) < current_date

\* The amount of the ledger row (address, number), None without a row.
ledger(table, address, number) ==
    LET rows == {r \in table : r.address = address /\ r.block_number = number}
    IN  IF rows = {} THEN None ELSE Some((CHOOSE r \in rows : TRUE).amount)

\* C25: upsert_balance on a chain with Shared storage returns an
\* unsupported-operation error and leaves all stored state unchanged.
C25_SharedUpsertBalanceIsUnsupported ==
    [][observed("upsert_balance") /\ storage = "Shared"
          => /\ returned'[5] = Err("unsupported")
             /\ UNCHANGED <<blocks, table_vars, network_vars, side_vars>>]_vars

\* C26: after upsert_balance(a, u, bp) on a Private chain the ledger row
\* (a, bp.number) holds a decimal numerically equal to u, for every u of
\* the unsigned range and so for the upper half of it; it is the row's
\* amount whether or not the row was there, and no other row changes.
C26_BalanceIsTheUnsignedAmount ==
    [][observed("upsert_balance") /\ storage = "Private"
          => LET a == returned'[2]
                 u == returned'[3]
                 bp == returned'[4]
             IN  /\ ledger(balance', a, bp.number) = Some(u)
                 /\ \A x \in Addresses, n \in 0..MaxNumber :
                       <<x, n>> # <<a, bp.number>>
                          => ledger(balance', x, n) = ledger(balance, x, n)
                 /\ Cardinality({r \in balance' : /\ r.address = a
                                                  /\ r.block_number = bp.number})
                       = 1]_vars

\* An upsert_balance of the largest amount has returned on a Private chain,
\* its row holds that amount, and the ledger holds a second row.
C26_Witness ==
    /\ storage = "Private"
    /\ returned[1] = "upsert_balance"
    /\ returned[3] = AmountLimit - 1
    /\ ledger(balance, returned[2], returned[4].number) = Some(AmountLimit - 1)
    /\ Cardinality(balance) = 2

\* C27: balance_address_list(bp) returns the distinct non-null `to`
\* addresses of the transactions stored with block_number = bp.number: every
\* such address is in the result, no other is, and none is there twice.
C27_AddressListIsDistinctSet ==
    [][observed("balance_address_list") =>
          LET bp == returned'[2]
              list == returned'[3][2]
              tos == {unwrap(r.to) : r \in {x \in transactions :
                                              /\ x.block_number = bp.number
                                              /\ x.to # None}}
          IN  /\ returned'[3][1] = "Ok"
              /\ {list[i] : i \in 1..Len(list)} = tos
              /\ \A i, j \in 1..Len(list) : list[i] = list[j] => i = j]_vars

\* The chain head pair.
head_vars == <<head_block_hash, head_block_number>>

\* C28: the four pointer pairs of a chain are disjoint.  A step of
\* attempt_chain_head_update changes at most the chain head;
\* early_attempt_chain_head_update sets the chain early head to its
\* arguments whatever is stored and notifies nobody; chain_update_balance_head
\* sets the balance head and chain_update_balance_early_head the balance
\* early head; each leaves the three other pairs and the blocks unchanged.
C28_PointerPairsAreDisjoint ==
    [][/\ pc'[1] # pc[1]
             => UNCHANGED <<early_head_vars, balance_head_vars,
                            balance_early_head_vars, blocks>>
       /\ observed("early_attempt_chain_head_update")
             => /\ early_head_block_hash' = Some(returned'[2].hash)
                /\ early_head_block_number' = Some(returned'[2].number)
                /\ UNCHANGED <<head_vars, sent, balance_head_vars,
                               balance_early_head_vars, blocks>>
       /\ observed("chain_update_balance_head")
             => /\ balance_head_block_hash' = Some(returned'[2].hash)
                /\ balance_head_block_number' = Some(returned'[2].number)
                /\ UNCHANGED <<head_vars, sent, early_head_vars,
                               balance_early_head_vars, blocks>>
       /\ observed("chain_update_balance_early_head")
             => /\ balance_early_head_block_hash' = Some(returned'[2].hash)
                /\ balance_early_head_block_number' = Some(returned'[2].number)
                /\ UNCHANGED <<head_vars, sent, early_head_vars,
                               balance_head_vars, blocks>>]_vars

\* The four pairs hold four different combinations at once: the chain head
\* is at block 1 after an attempt, the early head at the genesis block though
\* it was set after the head, the balance head at block 1 and the balance
\* early head not set.
C28_Witness ==
    /\ head_block_number = Some(1)
    /\ early_head_block_number = Some(0)
    /\ returned[1] = "early_attempt_chain_head_update"
    /\ balance_head_block_number = Some(1)
    /\ balance_early_head_block_number = None

\* The chain's blocks table as its statements without a chain filter see it.
blocks_table == blocks \cup other_rows(storage, other_blocks)
blocks_table_next == blocks' \cup other_rows(storage, other_blocks')

\* C29: operations on one chain are independent of every other chain.  A
\* step of the other chain changes the result of no block_number,
\* ancestor_block, blocks, block_hashes_by_block_number, upsert_light_blocks
\* or attempt_chain_head_update (its candidate and its missing parent) call
\* on this chain, and block_number(h) returns None for a block that this
\* chain has not stored.
C29_ChainsAreIndependent ==
    [][/\ other_blocks' # other_blocks =>
             /\ \A h \in Hashes :
                   /\ Storage_block_number(blocks_table_next, h)
                         = Storage_block_number(blocks_table, h)
                   /\ blocks_of(blocks', {h}) = blocks_of(blocks, {h})
                   /\ \A offset \in 0..NumberOf(h) :
                         ancestor_block(blocks_table_next,
                                        BlockPtr(h, NumberOf(h)), offset)
                            = ancestor_block(blocks_table,
                                             BlockPtr(h, NumberOf(h)), offset)
                   /\ \A first_block \in 0..MaxNumber :
                         missing_parent(blocks', first_block, h, GenesisHash)
                            = missing_parent(blocks, first_block, h,
                                             GenesisHash)
             /\ \A n \in 0..MaxNumber :
                   /\ block_hashes_by_block_number(blocks', n)
                         = block_hashes_by_block_number(blocks, n)
                   /\ chain_head_candidate(blocks', n - 1)
                         = chain_head_candidate(blocks, n - 1)
             /\ \A bs \in Batches :
                   upsert_light_blocks(blocks_table_next, bs)
                          \ other_rows(storage, other_blocks')
                      = upsert_light_blocks(blocks_table, bs)
                            \ other_rows(storage, other_blocks)
       /\ observed("block_number") /\ ~stored(blocks, returned'[2])
             => returned'[3] = Ok(None)]_vars

\* C30: dropping a chain removes all of its persisted state.  When create
\* returns after a drop_chain, chain_head_ptr, chain_early_head_ptr,
\* chain_balance_head_ptr and chain_balance_early_head_ptr return None and
\* no block, transaction or call cache entry is visible.
C30_DropRemovesAllState ==
    [][observed("create") =>
          /\ match_pointer(head_block_hash', head_block_number') = Ok(None)
          /\ match_pointer(early_head_block_hash', early_head_block_number')
                = Ok(None)
          /\ match_pointer(balance_head_block_hash',
                           balance_head_block_number') = Ok(None)
          /\ match_pointer(balance_early_head_block_hash',
                           balance_early_head_block_number') = Ok(None)
          /\ blocks' = {}
          /\ transactions' = {}
          /\ \A c \in Contracts, e \in EncodedCalls, b \in CallBlocks :
                cached_next(c, e, b) = Ok(None)]_vars

\* C31: cleanup_cached_blocks(k) deletes nothing and returns None when the
\* chain has no consumer that has not failed, when the chain head is null,
\* and when min(slowest consumer head, head - k) is not positive; otherwise
\* it deletes the blocks with 0 < number < that depth and returns the depth
\* and the number of rows deleted.
C31_CleanupNoOpWithoutDepth ==
    [][observed("cleanup_cached_blocks")
          => LET k == returned'[2]
                 m == returned'[3]
                 result == cleanup_cached_blocks(blocks, m, head_block_number, k)
                 deleted == blocks \ blocks'
             IN  IF \/ m = None
                    \/ head_block_number = None
                    \/ Min(unwrap(m), unwrap(head_block_number) - k) <= 0
                 THEN result = None /\ blocks' = blocks
                 ELSE LET depth == Min(unwrap(m), unwrap(head_block_number) - k)
                      IN  /\ deleted = {b \in blocks :
                                           0 < b.number /\ b.number < depth}
                          /\ result = Some(<<depth, Cardinality(deleted)>>)]_vars

\* Every entry of a selection set holds at most one field per response key.
one_field_per_key(its) ==
    \A i \in 1..Len(its) :
        \A j, k \in 1..Len(its[i].fields) :
            j # k => response_key(its[i].fields[j]) # response_key(its[i].fields[k])

\* The entry of the set before the call holds a field of that response key.
holds_key(i, field) ==
    \E j \in 1..Len(items[i].fields) :
        response_key(items[i].fields[j]) = response_key(field)

\* C32: each entry of a selection set holds at most one field per response
\* key; push, push_fields and merge leave the entries and the fields they
\* hold as they are and in their places, adding fields at the end; a push or
\* merge of a field whose response key an entry holds aborts, and one that
\* completes has added the field to every entry (push) or to the first entry
\* of its type (merge); restrict retains exactly the entries whose name
\* matches the condition, whole and in order.
C32_OneFieldPerResponseKey ==
    /\ []one_field_per_key(items)
    /\ [][(observed("push") \/ observed("push_fields") \/ observed("merge"))
             => /\ Len(items') = Len(items)
                /\ \A i \in 1..Len(items) :
                      /\ items'[i].name = items[i].name
                      /\ Len(items'[i].fields) >= Len(items[i].fields)
                      /\ SubSeq(items'[i].fields, 1, Len(items[i].fields))
                            = items[i].fields]_vars
    /\ [][observed("push")
             => IF \E i \in 1..Len(items) : holds_key(i, returned'[2])
                THEN returned'[4] = Panic
                ELSE /\ returned'[4] = Ok(<<>>)
                     /\ \A i \in 1..Len(items) :
                           items'[i].fields
                              = Append(items[i].fields, returned'[2])]_vars
    /\ [][observed("merge")
             => LET other == returned'[2]
                    added(k) == [other[k].fields[1] EXCEPT
                                    !.directives = returned'[3] \o @]
                    first(k) == {i \in 1..Len(items) :
                                    /\ items[i].name = other[k].name
                                    /\ \A j \in 1..(i - 1) :
                                          items[j].name # other[k].name}
                IN  /\ (\E k \in 1..Len(other) :
                           \E i \in first(k) : holds_key(i, other[k].fields[1]))
                          => returned'[4] = Panic
                    /\ returned'[4] = Ok(<<>>)
                          => \A k \in 1..Len(other) : \E i \in first(k) :
                                \E j \in 1..Len(items'[i].fields) :
                                    /\ j > Len(items[i].fields)
                                    /\ items'[i].fields[j] = added(k)]_vars
    /\ [][observed("restrict")
             => LET type_cond == returned'[2]
                    kept == {i \in 1..Len(items) :
                                \/ type_cond[1] = "Any"
                                \/ items[i].name \in type_cond[2]}
                IN  /\ Len(items') = Cardinality(kept)
                    /\ \A i \in kept :
                          items'[Cardinality({j \in kept : j <= i})]
                             = items[i]]_vars

\* A push has aborted on the second entry, which holds another field of the
\* pushed field's response key and still holds it, after the first entry
\* was given the pushed field.
C32_Witness ==
    /\ returned[1] = "push"
    /\ returned[4] = Panic
    /\ Len(items) = 2
    /\ items[1].fields = <<returned[2]>>
    /\ Len(items[2].fields) = 1
    /\ items[2].fields[1].name # returned[2].name
    /\ response_key(items[2].fields[1]) = response_key(returned[2])

\* The two columns of a pointer pair are both NULL or both set.
both_or_neither(hash_opt, number_opt) == (hash_opt = None) <=> (number_opt = None)

\* C33: in every state that create, attempt_chain_head_update,
\* early_attempt_chain_head_update, chain_update_balance_head and
\* chain_update_balance_early_head lead to, also across drop_chain, the hash
\* and the number of the head, the early head, the balance head and the
\* balance early head are both NULL or both set, and no pointer reader runs
\* into its branch for exactly one NULL.
C33_PointerPairsAreWhole ==
    /\ both_or_neither(head_block_hash, head_block_number)
    /\ both_or_neither(early_head_block_hash, early_head_block_number)
    /\ both_or_neither(balance_head_block_hash, balance_head_block_number)
    /\ both_or_neither(balance_early_head_block_hash,
                       balance_early_head_block_number)
    /\ match_pointer(head_block_hash, head_block_number) # Panic
    /\ match_pointer(early_head_block_hash, early_head_block_number) # Panic
    /\ match_pointer(balance_head_block_hash, balance_head_block_number) # Panic
    /\ match_pointer(balance_early_head_block_hash,
                     balance_early_head_block_number) # Panic

\* Every writer has written its pair: the four pointers are all set.
C33_Witness ==
    /\ created
    /\ is_some(head_block_hash) /\ is_some(head_block_number)
    /\ is_some(early_head_block_hash) /\ is_some(early_head_block_number)
    /\ is_some(balance_head_block_hash) /\ is_some(balance_head_block_number)
    /\ is_some(balance_early_head_block_hash)
    /\ is_some(balance_early_head_block_number)

\* C34: when the missing-parent check of attempt_chain_head_update returns
\* Some(h) to the caller, no block with hash h is stored at the time of the
\* check, and h is the parent_hash of the deepest stored block of the
\* candidate's parent chain.
C34_MissingHashIsNotStored ==
    [][\A w \in Workers :
        (leaves(w, "missing_parent") /\ pc'[w] = "idle")
           => LET chain == parent_chain(blocks, unwrap(candidate[w]).hash)
              IN  /\ returned'[1] = "attempt_chain_head_update"
                  /\ returned'[3][1] = "Ok"
                  /\ is_some(returned'[3][2])
                  /\ ~stored(blocks, unwrap(returned'[3][2]))
                  /\ Len(chain) > 0
                  /\ chain[Len(chain)].parent_hash = unwrap(returned'[3][2])]_vars

\* The call returned the hash of the block two steps below its candidate:
\* the candidate and its parent are stored and the block below them is not.
C34_Witness ==
    /\ returned = <<"attempt_chain_head_update", 1, Ok(Some(3))>>
    /\ pc[1] = "idle"
    /\ stored(blocks, 6)
    /\ stored(blocks, 5)
    /\ ~stored(blocks, 3)

loop_done ==
    /\ in_loop
    /\ returned[4] = Ok(None)
    /\ pc[1] = "idle"
    /\ chain_head_candidate(blocks, unwrap_or(head_block_number, -1)) = None

attempt_missing(blks, hd, k) ==
    LET c == chain_head_candidate(blks, unwrap_or(hd, -1))
    IN  IF c = None THEN None
        ELSE missing_parent(blks, first_block_of(unwrap(c), k),
                            unwrap(c).hash, GenesisHash)

\* C36: after cleanup_cached_blocks(k) has deleted blocks, the next
\* attempt_chain_head_update(k) does not report as missing a block that the
\* cleanup deleted.
C36_CleanupKeepsWalkedBlocks ==
    [][observed("cleanup_cached_blocks")
          => LET k == returned'[2]
                 deleted == blocks \ blocks'
                 missing == attempt_missing(blocks', head_block_number', k)
             IN  is_some(missing) => ~stored(deleted, unwrap(missing))]_vars

\* The same with a chain head that is set when cleanup runs.
C36_HoldsWithHead ==
    [][(observed("cleanup_cached_blocks") /\ is_some(head_block_number))
          => LET k == returned'[2]
                 deleted == blocks \ blocks'
                 missing == attempt_missing(blocks', head_block_number', k)
             IN  is_some(missing) => ~stored(deleted, unwrap(missing))]_vars

\* C37: with ancestor_count = 0 the check of attempt_chain_head_update still
\* looks for the parent of a candidate that is not the genesis block: when
\* that parent is not stored the call returns Ok(Some(parent hash)) and
\* leaves the head alone, and the update goes ahead only for the genesis
\* block or a candidate whose parent is stored at the time of the check.
C37_ZeroAncestorsStillNeedsParent ==
    [][\A w \in Workers :
        (leaves(w, "missing_parent") /\ ancestor_count[w] = 0
            /\ unwrap(candidate[w]).hash # GenesisHash)
           => LET parent == ParentOf(unwrap(candidate[w]).hash)
              IN  IF stored(blocks, parent)
                  THEN pc'[w] = "update"
                  ELSE /\ returned' = <<"attempt_chain_head_update", w,
                                        Ok(Some(parent))>>
                       /\ pc'[w] = "idle"
                       /\ UNCHANGED network_vars]_vars

\* The same for a candidate whose row is still stored when the check runs.
C37_HoldsWhileCandidateStored ==
    [][\A w \in Workers :
        (leaves(w, "missing_parent") /\ ancestor_count[w] = 0
            /\ unwrap(candidate[w]).hash # GenesisHash
            /\ stored(blocks, unwrap(candidate[w]).hash))
           => LET parent == ParentOf(unwrap(candidate[w]).hash)
              IN  IF stored(blocks, parent)
                  THEN pc'[w] = "update"
                  ELSE /\ returned' = <<"attempt_chain_head_update", w,
                                        Ok(Some(parent))>>
                       /\ pc'[w] = "idle"
                       /\ UNCHANGED network_vars]_vars

\* C38: when attempt_chain_head_update returns an error, the chain head is
\* not the candidate of that call: the update of the head is not left
\* committed behind the error.
C38_ErrorLeavesHead ==
    [][\A w \in Workers :
        (pc[w] \in {"update", "send"} /\ pc'[w] = "idle"
            /\ returned'[1] = "attempt_chain_head_update"
            /\ returned'[3][1] = "Err")
           => chain_head_ptr' # candidate[w]]_vars

\* The same for the error of the update statement alone.
C38_UpdateErrorLeavesHead ==
    [][\A w \in Workers :
        (pc[w] = "update" /\ pc'[w] = "idle"
            /\ returned'[1] = "attempt_chain_head_update"
            /\ returned'[3][1] = "Err")
           => /\ chain_head_ptr' # candidate[w]
              /\ UNCHANGED network_vars]_vars

\* C39: an upsert_balance(a, u2, bp2) that finds a row for (a, bp2.number)
\* changes the amount of that row and nothing else: the row keeps the
\* block_hash of the write that inserted it, also when bp2.hash differs from
\* it, and every other row stays as it was.
C39_ConflictKeepsBlockHash ==
    [][observed("upsert_balance")
          => LET a == returned'[2]
                 u2 == returned'[3]
                 bp2 == returned'[4]
                 hit == {r \in balance : /\ r.address = a
                                         /\ r.block_number = bp2.number}
             IN  hit # {}
                    => /\ Cardinality(hit) = 1
                       /\ \A r \in hit :
                             balance' = (balance \ {r})
                                 \cup {[r EXCEPT !.amount = balance_numeric(u2)]}]_vars

\* The last write for address 1 named the sibling block and the amount 1;
\* the row holds that amount with the hash of the block written first.
C39_Witness ==
    /\ returned = <<"upsert_balance", <<1>>, 1,
                    BlockPtr(SiblingHash, NumberOf(SiblingHash)), Ok(<<>>)>>
    /\ \E r \in balance : /\ r.address = <<1>>
                          /\ r.block_number = NumberOf(SiblingHash)
                          /\ r.block_hash = SiblingHash - 1
                          /\ r.amount = 1

====
